---- MODULE Spec2Model ----
(***************************************************************************)
(* A model of the LLM REST gateway (ozturkoktay/llm-rest-api): the HTTP    *)
(* route handlers, the LLM service, the Ollama provider with its model     *)
(* resolver, and the document pipeline.                                    *)
(*                                                                         *)
(* Strings whose characters the code inspects (model names, file names,    *)
(* document text, prompts) are sequences of one-character strings.         *)
(* Eight specifications share the module:                                  *)
(*   Spec          one HTTP request handled from receipt to response       *)
(*   SpecResolver  OllamaProvider.check_model_exists on a name and a reply *)
(*   SpecPrompt    DocumentService._build_prompt on a question and a text  *)
(*   SpecRequest   GenerateRequest constructed from the fields of a body   *)
(*   SpecChoice    LLMService._get_provider_for_request on a request       *)
(*   SpecPayload   the payload OllamaProvider builds for a generate call   *)
(*   SpecRelay     a streaming response relayed while the client may leave *)
(*   SpecPool      several requests in flight on one service               *)
(***************************************************************************)
EXTENDS Integers, Sequences, FiniteSets, TLC

VARIABLES
  pc,        \* position of the request's handler
  endpoint,  \* the route the request was sent to
  request,   \* the request's fields
  backend,   \* what the inference backend answers to this request's calls
  upload,    \* the uploaded file and the extraction capability (document route)
  provider,  \* the provider handle the service resolved for the request
  calls,     \* outbound calls made so far, in order
  events,    \* elements yielded so far by the streaming response body
  response,  \* the HTTP response (status and body), once produced
  resolver,  \* SpecResolver: one call of check_model_exists
  composer,  \* SpecPrompt: one call of _build_prompt
  validator, \* SpecRequest: one construction of GenerateRequest
  chooser,   \* SpecChoice: one call of _get_provider_for_request
  builder,   \* SpecPayload: one payload built by the provider
  relay,     \* SpecRelay: one streaming response and its client
  pool       \* SpecPool: the requests in flight and the provider handles

handlerVars == <<pc, endpoint, request, backend, upload, provider, calls, events, response>>
vars == <<pc, endpoint, request, backend, upload, provider, calls, events, response,
          resolver, composer, validator, chooser, builder, relay, pool>>

None == "None"

\* The values of the variables a specification does not use.
ResolverIdle == [pc |-> "idle"]
ComposerIdle == [pc |-> "idle"]
ValidatorIdle == [pc |-> "idle"]
ChooserIdle == [pc |-> "idle"]
BuilderIdle == [pc |-> "idle"]
RelayIdle == [pc |-> "idle"]
PoolIdle == [pc |-> "idle"]

\* The variables of the other specifications, which Spec leaves alone.
callVars == <<resolver, composer, validator, chooser, builder, relay, pool>>

HandlerIdle ==
  /\ pc = "unused"
  /\ endpoint = None
  /\ request = None
  /\ backend = None
  /\ upload = None
  /\ provider = None
  /\ calls = <<>>
  /\ events = <<>>
  /\ response = None

----------------------------------------------------------------------------
(* Python str operations on character sequences *)

UpperChars == <<"A","B","C","D","E","F","G","H","I","J","K","L","M",
                "N","O","P","Q","R","S","T","U","V","W","X","Y","Z">>
LowerChars == <<"a","b","c","d","e","f","g","h","i","j","k","l","m",
                "n","o","p","q","r","s","t","u","v","w","x","y","z">>

LowerChar(c) ==
  IF \E i \in DOMAIN UpperChars : UpperChars[i] = c
  THEN LowerChars[CHOOSE i \in DOMAIN UpperChars : UpperChars[i] = c]
  ELSE c

\* str.lower()
Lower(s) == [i \in DOMAIN s |-> LowerChar(s[i])]

\* str.startswith(p)
StartsWith(s, p) == Len(p) <= Len(s) /\ SubSeq(s, 1, Len(p)) = p

\* str.endswith(p)
EndsWith(s, p) == Len(p) <= Len(s) /\ SubSeq(s, Len(s) - Len(p) + 1, Len(s)) = p

\* c in s, for a one-character c
HasChar(s, c) == \E i \in DOMAIN s : s[i] = c

WhitespaceChars == {" ", "\n", "\t", "\r"}

\* bool(s.strip()): some character of s is not whitespace
StripNonEmpty(s) == \E i \in DOMAIN s : s[i] \notin WhitespaceChars

\* "\n\n".join(parts) and friends
RECURSIVE Join(_, _)
Join(parts, sep) ==
  IF parts = <<>> THEN <<>>
  ELSE IF Len(parts) = 1 THEN parts[1]
  ELSE parts[1] \o sep \o Join(Tail(parts), sep)

DigitChars == <<"0","1","2","3","4","5","6","7","8","9">>

\* str(n) for a natural number n
RECURSIVE IntToStr(_)
IntToStr(n) ==
  IF n < 10 THEN <<DigitChars[n + 1]>>
  ELSE IntToStr(n \div 10) \o <<DigitChars[(n % 10) + 1]>>

----------------------------------------------------------------------------
(* HTTP status codes used by the routes and the provider *)

HTTP_200_OK == 200
HTTP_400_BAD_REQUEST == 400
HTTP_404_NOT_FOUND == 404
HTTP_500_INTERNAL_SERVER_ERROR == 500

----------------------------------------------------------------------------
(* Model names *)

Colon == <<":">>
LatestTag == <<"l","a","t","e","s","t">>

N_llama2        == <<"l","l","a","m","a","2">>
N_Llama2        == <<"L","l","a","m","a","2">>
N_llama         == <<"l","l","a","m","a">>
N_llama3        == <<"l","l","a","m","a","3">>
N_llama2_latest == N_llama2 \o Colon \o LatestTag
N_llama2_7b     == N_llama2 \o Colon \o <<"7","b">>
N_LLAMA2_7B     == <<"L","L","A","M","A","2">> \o Colon \o <<"7","B">>
N_llama3_latest == N_llama3 \o Colon \o LatestTag
N_ghost         == <<"g","h","o","s","t","-","m","o","d","e","l">>

\* settings.model_name
DefaultModelName == N_llama2

----------------------------------------------------------------------------
(* The backend's answers *)

\* An answer to GET /api/tags: a reply with a status and a body, or no reply.
\*   kind "reply"     status and, when the body parses, the models list
\*   kind "badjson"   a reply with status 200 whose body is not JSON
\*   kind "transport" the connection failed (httpx.TransportError)
\*   kind "timeout"   the call timed out (httpx.TimeoutException)
TagsReply(status, models) == [kind |-> "reply", status |-> status, models |-> models]
TagsBadJson   == [kind |-> "badjson", status |-> HTTP_200_OK, models |-> <<>>]
TagsTransport == [kind |-> "transport", status |-> 0, models |-> <<>>]
TagsTimeout   == [kind |-> "timeout", status |-> 0, models |-> <<>>]

\* The listing calls that bring no catalog.
FailedTagsReplies ==
  {TagsBadJson, TagsTransport, TagsTimeout,
   TagsReply(HTTP_404_NOT_FOUND, <<>>), TagsReply(HTTP_500_INTERNAL_SERVER_ERROR, <<>>)}

\* One element of the catalog's "models" list; an absent field is the empty
\* string, which is what model.get(field, "") makes of it.
Entry(name, model) == [name |-> name, model |-> model]

----------------------------------------------------------------------------
(* OllamaProvider.check_model_exists *)

\* model_name_normalized
Normalize(model_name) ==
  IF HasChar(Lower(model_name), ":")
  THEN Lower(model_name)
  ELSE Lower(model_name) \o Colon \o LatestTag

\* The part of a name before its first colon, and the part after it.
FirstColon(s) ==
  CHOOSE i \in DOMAIN s : s[i] = ":" /\ \A j \in 1..(i - 1) : s[j] # ":"
BaseOf(s) == IF HasChar(s, ":") THEN SubSeq(s, 1, FirstColon(s) - 1) ELSE s
TagOf(s) == IF HasChar(s, ":") THEN SubSeq(s, FirstColon(s) + 1, Len(s)) ELSE <<>>

\* The loop body's condition with the tag of the request ignored in the prefix
\* test: every installed tag of the base satisfies a tagged request.
EntryMatchesAnyTag(model_name, model) ==
  LET model_full_name == Lower(model.name)
      model_base_name == Lower(model.model)
  IN \/ Normalize(model_name) = model_full_name
     \/ Normalize(model_name) = model_base_name
     \/ StartsWith(model_full_name, Lower(BaseOf(model_name)) \o Colon)
     \/ StartsWith(model_base_name, Lower(BaseOf(model_name)) \o Colon)

\* The loop body's condition without the lower-casing of the catalog's fields.
EntryMatchesCaseSensitive(model_name, model) ==
  \/ Normalize(model_name) = model.name
  \/ Normalize(model_name) = model.model
  \/ StartsWith(model.name, Lower(model_name) \o Colon)
  \/ StartsWith(model.model, Lower(model_name) \o Colon)

\* The condition of the loop body: does this catalog entry match?
EntryMatches(model_name, model) ==
  LET model_full_name == Lower(model.name)
      model_base_name == Lower(model.model)
  IN \/ Normalize(model_name) = model_full_name
     \/ Normalize(model_name) = model_base_name
     \/ StartsWith(model_full_name, Lower(model_name) \o Colon)
     \/ StartsWith(model_base_name, Lower(model_name) \o Colon)

\* for model in models: if <match>: return True ... return False
RECURSIVE ScanModels(_, _)
ScanModels(model_name, models) ==
  IF models = <<>> THEN FALSE
  ELSE IF EntryMatches(model_name, Head(models)) THEN TRUE
  ELSE ScanModels(model_name, Tail(models))

\* The method failing open: an exception of the listing call answers True.
CheckModelExistsFailOpen(model_name, reply) ==
  IF reply.kind \in {"transport", "timeout"} THEN TRUE
  ELSE IF reply.status # HTTP_200_OK THEN FALSE
  ELSE IF reply.kind = "badjson" THEN TRUE
  ELSE ScanModels(model_name, reply.models)

\* The whole method: any failure of the listing call answers False.
CheckModelExists(model_name, reply) ==
  IF reply.kind \in {"transport", "timeout"} THEN FALSE
  ELSE IF reply.status # HTTP_200_OK THEN FALSE
  ELSE IF reply.kind = "badjson" THEN FALSE
  ELSE ScanModels(model_name, reply.models)

----------------------------------------------------------------------------
(* DocumentService._build_prompt *)

\* max_chars
max_chars == 4000

\* "\n\n[... document truncated ...]"
TruncationMarker ==
  <<
    "\n","\n","[",".",".","."," ","d","o","c","u","m","e","n","t"," ","t","r",
    "u","n","c","a","t","e","d"," ",".",".",".","]" >>

\* The template up to the document text
PromptHead ==
  <<
    "B","a","s","e","d"," ","o","n"," ","t","h","e"," ","f","o","l","l","o",
    "w","i","n","g"," ","d","o","c","u","m","e","n","t"," ","c","o","n","t",
    "e","n","t",","," ","p","l","e","a","s","e"," ","a","n","s","w","e","r",
    " ","t","h","e"," ","q","u","e","s","t","i","o","n",".","\n","\n","D","o",
    "c","u","m","e","n","t"," ","C","o","n","t","e","n","t",":","\n" >>

\* "\n\nQuestion: "
PromptQuestionLabel ==
  <<
    "\n","\n","Q","u","e","s","t","i","o","n",":"," " >>

\* "\n\nAnswer:"
PromptAnswerLabel ==
  <<
    "\n","\n","A","n","s","w","e","r",":" >>

\* The truncation with >= for >.
ContextTextOffByOne(document_text, context_mode) ==
  IF context_mode = "summary" /\ Len(document_text) >= max_chars
  THEN SubSeq(document_text, 1, max_chars) \o TruncationMarker
  ELSE document_text

\* The truncation applied in smart mode as in summary mode.
ContextTextSmartTruncates(document_text, context_mode) ==
  IF context_mode \in {"summary", "smart"} /\ Len(document_text) > max_chars
  THEN SubSeq(document_text, 1, max_chars) \o TruncationMarker
  ELSE document_text

\* document_text as the template embeds it: truncated in summary mode only
ContextText(document_text, context_mode) ==
  IF context_mode = "summary" /\ Len(document_text) > max_chars
  THEN SubSeq(document_text, 1, max_chars) \o TruncationMarker
  ELSE document_text

\* The f-string the method returns
BuildPrompt(question, document_text, context_mode) ==
  PromptHead \o ContextText(document_text, context_mode)
    \o PromptQuestionLabel \o question \o PromptAnswerLabel

----------------------------------------------------------------------------
(* Python values: truthiness, exceptions *)

\* None where a string may stand: a sequence that is no string, since every
\* element of a string is one character.
NoneStr == <<"None">>

\* bool(x) for an optional string
Truthy(x) == x # NoneStr /\ x # <<>>

\* a or b
Or(a, b) == IF Truthy(a) THEN a ELSE b

\* The classes an exception of class cls is an instance of.
ExceptionBases(cls) ==
  CASE cls = "JSONDecodeError"  -> {"JSONDecodeError", "ValueError", "Exception"}
    [] cls = "ConnectError"     -> {"ConnectError", "HTTPError", "Exception"}
    [] cls = "ReadError"        -> {"ReadError", "HTTPError", "Exception"}
    [] cls = "TimeoutException" -> {"TimeoutException", "HTTPError", "Exception"}
    [] cls = "HTTPStatusError"  -> {"HTTPStatusError", "HTTPError", "Exception"}
    [] OTHER                    -> {cls, "Exception"}

\* isinstance(e, cls), which is what an except clause tests
IsInstance(e, cls) == cls \in ExceptionBases(e.cls)

\* An exception with a message; a message is the tuple of an f-string's parts.
Raise(cls, msg) == [cls |-> cls, msg |-> msg]

\* No exception: the code ran to its end.
NoExc == [cls |-> "None", msg |-> <<>>]
Raised(e) == e.cls # "None"

\* HTTPException(status_code=..., detail=...); its str() is "<status>: <detail>"
HTTPException(status_code, detail) ==
  [cls |-> "HTTPException", status_code |-> status_code, detail |-> detail,
   msg |-> <<status_code, ": ", detail>>]

\* str(e)
StrOf(e) == e.msg

S_ollama_pull == <<"o","l","l","a","m","a"," ","p","u","l","l"," ">>

\* ModelNotFoundError._generate_message
GenerateMessage(model_name, provider_type) ==
  IF provider_type = "ollama"
  THEN <<"Model '", model_name, "' not found. To download this model, run:\n\n  ",
         S_ollama_pull \o model_name,
         "\n\nTo see available models, run:\n  ollama list\n\n",
         "For more models, visit: https://ollama.ai/library">>
  ELSE <<"Model '", model_name, "' not found for provider '", provider_type, "'">>

\* ModelNotFoundError(model_name, provider)
ModelNotFoundError(model_name, provider_type) ==
  [cls |-> "ModelNotFoundError", model_name |-> model_name, provider |-> provider_type,
   message |-> GenerateMessage(model_name, provider_type),
   msg |-> GenerateMessage(model_name, provider_type)]

\* ModelNotFoundError._get_instructions
GetInstructions(e) ==
  IF e.provider = "ollama"
  THEN [download_command |-> S_ollama_pull \o e.model_name,
        list_models_command |-> "ollama list",
        browse_models_url |-> "https://ollama.ai/library"]
  ELSE <<>>

\* ModelNotFoundError.to_dict
ToDict(e) ==
  [error |-> "Model Not Found", model_name |-> e.model_name, provider |-> e.provider,
   message |-> e.message, instructions |-> GetInstructions(e)]

----------------------------------------------------------------------------
(* The provider handle and the service's choice of it *)

\* settings.ollama_base_url
OllamaBaseUrl ==
  <<"h","t","t","p",":","/","/","l","o","c","a","l","h","o","s","t",
    ":","1","1","4","3","4">>

\* OllamaProvider(base_url, model_name); shared tells the handle that
\* get_llm_provider caches from one built for a single request.
OllamaProvider(base_url, model_name, shared) ==
  [base_url |-> Or(base_url, OllamaBaseUrl),
   model_name |-> Or(model_name, DefaultModelName),
   shared |-> shared]

\* get_llm_provider(): the cached handle bound to the configured model
DefaultProvider == OllamaProvider(OllamaBaseUrl, DefaultModelName, TRUE)

\* OllamaProvider.get_model_info
GetModelInfo(p) == [provider |-> "ollama", model_name |-> p.model_name, base_url |-> p.base_url]

\* LLMProviderFactory.create_provider("ollama", model_name)
CreateProvider(model_name) ==
  OllamaProvider(OllamaBaseUrl, Or(model_name, DefaultModelName), FALSE)

\* The service with no switch of provider: the shared one serves every
\* request.
GetProviderForRequestShared(req, model_override) == DefaultProvider

\* The service building a handle for every request, the default model's too.
GetProviderForRequestAlwaysNew(req, model_override) ==
  CreateProvider(Or(Or(model_override, req.model), DefaultModelName))

\* The service with the request's model taking precedence over the override.
GetProviderForRequestModelFirst(req, model_override) ==
  LET model_name == Or(req.model, model_override)
  IN IF Truthy(model_name) /\ model_name # GetModelInfo(DefaultProvider).model_name
     THEN CreateProvider(model_name)
     ELSE DefaultProvider

\* LLMService._get_provider_for_request
GetProviderForRequest(req, model_override) ==
  LET model_name == Or(model_override, req.model)
  IN IF Truthy(model_name) /\ model_name # GetModelInfo(DefaultProvider).model_name
     THEN CreateProvider(model_name)
     ELSE DefaultProvider

----------------------------------------------------------------------------
(* GenerateRequest: the fields' constraints and the prompt's validator *)

\* Field(default=..., ge=..., le=...) of max_tokens, temperature, top_p and
\* top_k. temperature and top_p are floats: the model holds them in tenths,
\* so that 7 is 0.7 and 20 is 2.0.
max_tokens_default == 512
max_tokens_ge == 1
max_tokens_le == 4096
temperature_default == 7
temperature_ge == 0
temperature_le == 20
top_p_default == 9
top_p_ge == 0
top_p_le == 10
top_k_default == 40
top_k_ge == 0

\* The validator with "not v" alone: a prompt of spaces passes.
PromptMustNotBeEmptyNoStrip(v) ==
  IF v = <<>> THEN Raise("ValueError", <<"Prompt cannot be empty">>) ELSE NoExc

\* GenerateRequest.prompt_must_not_be_empty
PromptMustNotBeEmpty(v) ==
  IF v = <<>> \/ ~StripNonEmpty(v)
  THEN Raise("ValueError", <<"Prompt cannot be empty">>)
  ELSE NoExc

\* The constraints with max_tokens' upper bound exclusive.
FieldErrorsExclusiveLe(body) ==
  (IF Raised(PromptMustNotBeEmpty(body.prompt)) THEN {"prompt"} ELSE {})
  \cup (IF body.max_tokens >= max_tokens_ge /\ body.max_tokens < max_tokens_le
        THEN {} ELSE {"max_tokens"})
  \cup (IF body.temperature >= temperature_ge /\ body.temperature <= temperature_le
        THEN {} ELSE {"temperature"})
  \cup (IF body.top_p >= top_p_ge /\ body.top_p <= top_p_le THEN {} ELSE {"top_p"})
  \cup (IF body.top_k >= top_k_ge THEN {} ELSE {"top_k"})

\* The fields of a body that fail their constraints.
FieldErrors(body) ==
  (IF Raised(PromptMustNotBeEmpty(body.prompt)) THEN {"prompt"} ELSE {})
  \cup (IF body.max_tokens >= max_tokens_ge /\ body.max_tokens <= max_tokens_le
        THEN {} ELSE {"max_tokens"})
  \cup (IF body.temperature >= temperature_ge /\ body.temperature <= temperature_le
        THEN {} ELSE {"temperature"})
  \cup (IF body.top_p >= top_p_ge /\ body.top_p <= top_p_le THEN {} ELSE {"top_p"})
  \cup (IF body.top_k >= top_k_ge THEN {} ELSE {"top_k"})

\* GenerateRequest(**body): the request, or the ValidationError that names
\* the failing fields.
GenerateRequest(body) ==
  [raised |-> IF FieldErrors(body) = {} THEN NoExc
              ELSE Raise("ValidationError", <<"validation error for GenerateRequest">>),
   errors |-> FieldErrors(body),
   value |-> body]

\* A body that sets prompt, stream and model and leaves the rest to the
\* defaults.
RequestBody(prompt, stream, model) ==
  [prompt |-> prompt, max_tokens |-> max_tokens_default,
   temperature |-> temperature_default, top_p |-> top_p_default,
   top_k |-> top_k_default, stop_sequences |-> NoneStr, stream |-> stream,
   model |-> model]

----------------------------------------------------------------------------
(* OllamaProvider.generate, after the model check *)

\* An answer to POST /api/generate with "stream": false.
\*   kind "reply"     status and, when the body parses, the JSON object, a
\*                    record of the keys it holds
\*   kind "badjson"   status 200 with a body that is not JSON
\*   kind "transport" / "timeout": no reply
GenReply(status, data) == [kind |-> "reply", status |-> status, data |-> data]
GenBadJson   == [kind |-> "badjson", status |-> HTTP_200_OK, data |-> <<>>]
GenTransport == [kind |-> "transport", status |-> 0, data |-> <<>>]
GenTimeout   == [kind |-> "timeout", status |-> 0, data |-> <<>>]

\* data.get(key, default)
Get(data, key, default) == IF key \in DOMAIN data THEN data[key] ELSE default

\* bool(x) for an optional list
TruthyList(x) == x # NoneStr /\ x # <<>>

\* The "options" object of a payload; "stop" is set only for a stop list that
\* is given and not empty.
PayloadOptions(req) ==
  IF TruthyList(req.stop_sequences)
  THEN [num_predict |-> req.max_tokens, temperature |-> req.temperature,
        top_p |-> req.top_p, top_k |-> req.top_k, stop |-> req.stop_sequences]
  ELSE [num_predict |-> req.max_tokens, temperature |-> req.temperature,
        top_p |-> req.top_p, top_k |-> req.top_k]

\* The payload of OllamaProvider.generate
GeneratePayload(p, req) ==
  [model |-> p.model_name, prompt |-> req.prompt, stream |-> FALSE,
   options |-> PayloadOptions(req)]

\* The streaming payload carrying the request's own stream field.
GenerateStreamPayloadRequestFlag(p, req) ==
  [model |-> p.model_name, prompt |-> req.prompt, stream |-> req.stream,
   options |-> PayloadOptions(req)]

\* The payload of OllamaProvider.generate_stream
GenerateStreamPayload(p, req) ==
  [model |-> p.model_name, prompt |-> req.prompt, stream |-> TRUE,
   options |-> PayloadOptions(req)]

\* The call without raise_for_status(): a reply of any status is read.
HttpxFailureNoRaiseForStatus(reply) ==
  IF reply.kind = "transport" THEN Raise("ConnectError", <<"All connection attempts failed">>)
  ELSE IF reply.kind = "timeout" THEN Raise("TimeoutException", <<"timed out">>)
  ELSE NoExc

\* What awaiting an httpx call and raise_for_status() raise, if anything.
HttpxFailure(reply) ==
  IF reply.kind = "transport" THEN Raise("ConnectError", <<"All connection attempts failed">>)
  ELSE IF reply.kind = "timeout" THEN Raise("TimeoutException", <<"timed out">>)
  ELSE IF reply.status \notin 200..299 THEN Raise("HTTPStatusError", <<"status ", reply.status>>)
  ELSE NoExc

\* The try block of generate: the response, or the exception that leaves it.
ProviderGenerate(p, req, reply) ==
  IF Raised(HttpxFailure(reply))
  THEN [raised |-> Raise("Exception", <<"Failed to generate response: ", StrOf(HttpxFailure(reply))>>),
        value |-> <<>>]
  ELSE IF reply.kind = "badjson"
  THEN [raised |-> Raise("JSONDecodeError", <<"Expecting value">>), value |-> <<>>]
  ELSE [raised |-> NoExc,
        value |-> [generated_text |-> Get(reply.data, "response", ""),
                   prompt |-> req.prompt,
                   model_used |-> p.model_name,
                   tokens_generated |-> Get(reply.data, "eval_count", 0),
                   finish_reason |-> Get(reply.data, "done_reason", "complete")]]

\* health_check that also wants a model in the listing.
ProviderHealthCheckNeedsModels(reply) ==
  IF reply.kind \in {"transport", "timeout"} THEN FALSE
  ELSE reply.status = HTTP_200_OK /\ reply.kind = "reply" /\ reply.models # <<>>

\* OllamaProvider.health_check
ProviderHealthCheck(reply) ==
  IF reply.kind \in {"transport", "timeout"} THEN FALSE
  ELSE reply.status = HTTP_200_OK

----------------------------------------------------------------------------
(* OllamaProvider.generate_stream, an async generator: what iterating it does *)

\* One line of a streamed reply.
FragmentLine(text) == [kind |-> "json", data |-> [response |-> text]]
OtherJsonLine == [kind |-> "json", data |-> [done |-> TRUE]]
EmptyLine == [kind |-> "empty", data |-> <<>>]
GarbageLine == [kind |-> "garbage", data |-> <<>>]

\* A streamed reply: status, lines in order, and whether the backend then
\* closes the stream ("close") or the connection breaks ("fail").
StreamReply(status, lines, ending) == [status |-> status, lines |-> lines, ending |-> ending]

\* async for line in response.aiter_lines(): the fragments yielded and the
\* exception, if any, that ends the loop
RECURSIVE AiterLines(_, _)
AiterLines(lines, ending) ==
  IF lines = <<>>
  THEN [yields |-> <<>>,
        raised |-> IF ending = "fail"
                   THEN Raise("ReadError", <<"peer closed connection">>)
                   ELSE NoExc]
  ELSE LET line == Head(lines)
           rest == AiterLines(Tail(lines), ending)
       IN IF line.kind = "empty" THEN rest
          ELSE IF line.kind = "garbage"
          THEN [yields |-> <<>>, raised |-> Raise("JSONDecodeError", <<"Expecting value">>)]
          ELSE IF "response" \in DOMAIN line.data
          THEN [yields |-> <<line.data.response>> \o rest.yields, raised |-> rest.raised]
          ELSE rest

\* The generator's body run to its end: the calls it makes, the fragments it
\* yields and the exception it ends with.
ProviderGenerateStream(p, req, tags, stream) ==
  IF ~CheckModelExists(p.model_name, tags)
  THEN [calls |-> <<"GET /api/tags">>, yields |-> <<>>,
        raised |-> ModelNotFoundError(p.model_name, "ollama")]
  ELSE IF stream.status \notin 200..299
  THEN [calls |-> <<"GET /api/tags", "POST /api/generate">>, yields |-> <<>>,
        raised |-> Raise("Exception", <<"Failed to generate streaming response: ",
                                        <<"status ", stream.status>> >>)]
  ELSE LET run == AiterLines(stream.lines, stream.ending)
       IN [calls |-> <<"GET /api/tags", "POST /api/generate">>,
           yields |-> run.yields,
           raised |-> IF Raised(run.raised) /\ IsInstance(run.raised, "HTTPError")
                      THEN Raise("Exception", <<"Failed to generate streaming response: ",
                                                StrOf(run.raised)>>)
                      ELSE run.raised]

\* provider.generate_stream(request): calling an async generator function
\* runs none of its body; it returns the generator object.
CallGenerateStream(p, req, tags, stream) ==
  [type |-> "async_generator", body |-> ProviderGenerateStream(p, req, tags, stream)]

\* await obj: only an awaitable can be awaited; an async generator object is
\* not one, and the await raises TypeError before anything of it runs.
Await(obj) ==
  IF obj.type = "async_generator"
  THEN [raised |-> Raise("TypeError",
                         <<"object async_generator can't be used in 'await' expression">>)]
  ELSE [raised |-> NoExc]

\* LLMService.generate_text_stream iterated to its end.
ServiceGenerateTextStream(req, tags, stream) ==
  LET p == GetProviderForRequest(req, NoneStr)
      obj == CallGenerateStream(p, req, tags, stream)
  IN IF Raised(Await(obj).raised)
     THEN [provider |-> p, calls |-> <<>>, yields |-> <<>>, raised |-> Await(obj).raised]
     ELSE [provider |-> p, calls |-> obj.body.calls, yields |-> obj.body.yields,
           raised |-> obj.body.raised]

\* The elements of the event stream: "data: " and a JSON object, or the
\* literal [DONE], then a blank line
TextEvent(chunk) == [event |-> "text", data |-> [text |-> chunk]]
DoneEvent == [event |-> "done", data |-> [literal |-> "[DONE]"]]
ErrorEvent(msg) == [event |-> "error", data |-> [error |-> msg]]
NotFoundEvent(e) == [event |-> "not_found", data |-> ToDict(e)]

\* generate_chunks with the [DONE] event sent after an error event too.
GenerateChunksDoneAlways(run) ==
  [i \in DOMAIN run.yields |-> TextEvent(run.yields[i])]
    \o (IF ~Raised(run.raised) THEN <<>>
        ELSE IF IsInstance(run.raised, "ModelNotFoundError") THEN <<NotFoundEvent(run.raised)>>
        ELSE <<ErrorEvent(StrOf(run.raised))>>)
    \o <<DoneEvent>>

\* generate_chunks: a text event per chunk, then [DONE], or the event of the
\* exception that ended the iteration
GenerateChunks(run) ==
  [i \in DOMAIN run.yields |-> TextEvent(run.yields[i])]
    \o IF ~Raised(run.raised) THEN <<DoneEvent>>
       ELSE IF IsInstance(run.raised, "ModelNotFoundError") THEN <<NotFoundEvent(run.raised)>>
       ELSE <<ErrorEvent(StrOf(run.raised))>>

----------------------------------------------------------------------------
(* PDFProcessor and DocumentService.answer_question_about_document *)

S_dot_pdf == <<".","p","d","f">>
S_page_open == <<"-","-","-"," ","P","a","g","e"," ">>
S_page_close == <<" ","-","-","-","\n">>
S_blank_line == <<"\n","\n">>

\* PDFProcessor.supports_format
SupportsFormat(filename) == EndsWith(Lower(filename), S_dot_pdf)

\* An uploaded file: its size in bytes, whether the bytes are a PDF that
\* pypdf can read, and the text pypdf extracts from each of its pages.
FileContent(size, readable, pages) == [size |-> size, readable |-> readable, pages |-> pages]

\* text_parts: a part for every page whose text is not blank
RECURSIVE TextParts(_, _)
TextParts(pages, page_num) ==
  IF pages = <<>> THEN <<>>
  ELSE (IF StripNonEmpty(Head(pages))
        THEN << S_page_open \o IntToStr(page_num) \o S_page_close \o Head(pages) >>
        ELSE <<>>)
       \o TextParts(Tail(pages), page_num + 1)

\* PDFProcessor.extract_text: the text, or the ValueError it raises
ExtractText(file_content, filename, pypdf_available) ==
  IF ~pypdf_available
  THEN [raised |-> Raise("ValueError",
                         <<"PDF processing not available. Please install pypdf: pip install pypdf">>),
        text |-> <<>>]
  ELSE IF ~SupportsFormat(filename)
  THEN [raised |-> Raise("ValueError", <<"Unsupported file format. Expected PDF, got: ", filename>>),
        text |-> <<>>]
  ELSE IF ~file_content.readable
  THEN [raised |-> Raise("ValueError", <<"Failed to process PDF: ", "EOF marker not found">>),
        text |-> <<>>]
  ELSE [raised |-> NoExc, text |-> Join(TextParts(file_content.pages, 1), S_blank_line)]

\* DocumentQuestionRequest(question=..., model=..., context_mode=...)
DocumentQuestionRequest(question, model, context_mode) ==
  [question |-> question, model |-> model, context_mode |-> context_mode,
   prompt |-> <<>>, stream |-> FALSE]

----------------------------------------------------------------------------
(* The routes' except clauses *)

\* What FastAPI answers to a raised HTTPException.
ErrorResponse(status_code, detail) == [status |-> status_code, body |-> [detail |-> detail]]

\* generate_text's clauses with every failure answered 500.
GenerateTextExceptAll500(e) ==
  ErrorResponse(HTTP_500_INTERNAL_SERVER_ERROR, <<"Failed to generate text: ", StrOf(e)>>)

\* The except clauses of generate_text, in their order.
GenerateTextExcept(e) ==
  IF IsInstance(e, "ModelNotFoundError")
  THEN ErrorResponse(HTTP_404_NOT_FOUND, ToDict(e))
  ELSE IF IsInstance(e, "ValueError")
  THEN ErrorResponse(HTTP_400_BAD_REQUEST, StrOf(e))
  ELSE ErrorResponse(HTTP_500_INTERNAL_SERVER_ERROR, <<"Failed to generate text: ", StrOf(e)>>)

\* ask_document_question's clauses without the one for ValueError.
AskDocumentExceptNoValueError(e) ==
  IF IsInstance(e, "ModelNotFoundError")
  THEN ErrorResponse(HTTP_404_NOT_FOUND, ToDict(e))
  ELSE ErrorResponse(HTTP_500_INTERNAL_SERVER_ERROR,
                     <<"Failed to process document question: ", StrOf(e)>>)

\* The except clauses of ask_document_question, in their order.
AskDocumentExcept(e) ==
  IF IsInstance(e, "ValueError")
  THEN ErrorResponse(HTTP_400_BAD_REQUEST, StrOf(e))
  ELSE IF IsInstance(e, "ModelNotFoundError")
  THEN ErrorResponse(HTTP_404_NOT_FOUND, ToDict(e))
  ELSE ErrorResponse(HTTP_500_INTERNAL_SERVER_ERROR,
                     <<"Failed to process document question: ", StrOf(e)>>)

\* The except clauses of the route the request is on.
RouteExcept(e) ==
  IF endpoint = "document" THEN AskDocumentExcept(e) ELSE GenerateTextExcept(e)

----------------------------------------------------------------------------
(* Spec: one request, from its receipt to its response *)

MaxStreamLines == 2

Prompts == {<<"H","i">>}

\* Prompts with nothing in them but whitespace.
BlankPrompts == {<<>>, <<" ">>, <<"\t","\n">>}

\* The model field of a request: absent, empty, the default, or another name.
RequestModels == {NoneStr, <<>>, N_llama2, N_Llama2, N_llama3, N_ghost}

HandlerCatalogs ==
  {<<>>,
   <<Entry(N_llama2_latest, N_llama2_latest)>>,
   <<Entry(N_llama2_latest, N_llama2_latest), Entry(N_llama3_latest, N_llama3_latest)>>}

HandlerTagsReplies == {TagsReply(HTTP_200_OK, c) : c \in HandlerCatalogs} \cup FailedTagsReplies

GenReplies ==
  {GenReply(HTTP_200_OK, [response |-> "Hello world", eval_count |-> 2, done_reason |-> "stop"]),
   GenReply(HTTP_200_OK, [done |-> TRUE]),
   GenReply(HTTP_500_INTERNAL_SERVER_ERROR, <<>>),
   GenBadJson, GenTransport, GenTimeout}

StreamLines ==
  {FragmentLine("Hello"), FragmentLine(" world"), OtherJsonLine, EmptyLine, GarbageLine}

StreamReplies ==
  {StreamReply(HTTP_200_OK, lines, ending) :
     lines \in UNION {[1..k -> StreamLines] : k \in 0..MaxStreamLines},
     ending \in {"close", "fail"}}
  \cup {StreamReply(HTTP_500_INTERNAL_SERVER_ERROR, <<>>, "close")}

MaxPages == 1

S_notes_txt == <<"n","o","t","e","s",".","t","x","t">>
S_a_pdf == <<"a",".","p","d","f">>
S_A_PDF == <<"A",".","P","D","F">>

\* The uploaded file's name; it may be absent.
Filenames == {NoneStr, S_notes_txt, S_a_pdf, S_A_PDF}

PageTexts == {<<" ">>, <<"h","i">>}

FileContents ==
  {FileContent(0, FALSE, <<>>), FileContent(4, FALSE, <<>>)}
  \cup {FileContent(4 + Len(pages), TRUE, pages) :
          pages \in UNION {[1..j -> PageTexts] : j \in 0..MaxPages}}

Questions == {<<"Q","?">>, <<"w","h","y">>}

DocumentModels == {NoneStr, N_llama2, N_ghost}

NoReply == [kind |-> "none"]

Init ==
  /\ pc = "idle"
  /\ endpoint = None
  /\ request = None
  /\ backend = None
  /\ upload = None
  /\ provider = None
  /\ calls = <<>>
  /\ events = <<>>
  /\ response = None
  /\ resolver = ResolverIdle
  /\ composer = ComposerIdle
  /\ validator = ValidatorIdle
  /\ chooser = ChooserIdle
  /\ builder = BuilderIdle
  /\ relay = RelayIdle
  /\ pool = PoolIdle

\* The response is produced and the handler is over.
Respond(r) == response' = r /\ pc' = "done"

\* What FastAPI does with a JSON body before the route is entered: it builds
\* the GenerateRequest the route declares as its parameter, and answers 422
\* with the failing fields, without calling the route, when that fails.
ParseBody(body) ==
  IF Raised(GenerateRequest(body).raised)
  THEN /\ pc' = "rejected"
       /\ response' = ErrorResponse(422, GenerateRequest(body).errors)
  ELSE /\ pc' = "route"
       /\ UNCHANGED response

\* POST /generate arrives.
ReceiveGenerate ==
  /\ pc = "idle"
  /\ \E prompt \in Prompts \cup BlankPrompts, stream \in BOOLEAN, model \in RequestModels,
        tags \in HandlerTagsReplies, gen \in GenReplies :
       /\ request' = RequestBody(prompt, stream, model)
       /\ backend' = [tags |-> tags, generate |-> gen, stream |-> NoReply]
       /\ ParseBody(RequestBody(prompt, stream, model))
  /\ endpoint' = "generate"
  /\ UNCHANGED <<upload, provider, calls, events, callVars>>

\* POST /generate/stream arrives.
ReceiveStream ==
  /\ pc = "idle"
  /\ \E prompt \in Prompts \cup BlankPrompts, stream \in BOOLEAN, model \in RequestModels,
        tags \in HandlerTagsReplies, sr \in StreamReplies :
       /\ request' = RequestBody(prompt, stream, model)
       /\ backend' = [tags |-> tags, generate |-> NoReply, stream |-> sr]
       /\ ParseBody(RequestBody(prompt, stream, model))
  /\ endpoint' = "stream"
  /\ UNCHANGED <<upload, provider, calls, events, callVars>>

\* GET /health arrives.
ReceiveHealth ==
  /\ pc = "idle"
  /\ \E tags \in HandlerTagsReplies :
       backend' = [tags |-> tags, generate |-> NoReply, stream |-> NoReply]
  /\ endpoint' = "health"
  /\ pc' = "route"
  /\ UNCHANGED <<request, upload, provider, calls, events, response, callVars>>

\* generate_text up to the provider's first await: the stream check, whose
\* HTTPException is raised inside the try block and so meets the except
\* clauses, then the service's choice of provider.
GenerateRoute ==
  /\ pc = "route" /\ endpoint = "generate"
  /\ IF request.stream
     THEN /\ Respond(GenerateTextExcept(
                       HTTPException(HTTP_400_BAD_REQUEST,
                                     "Use /generate/stream endpoint for streaming responses")))
          /\ UNCHANGED provider
     ELSE /\ provider' = GetProviderForRequest(request, NoneStr)
          /\ pc' = "check_model"
          /\ UNCHANGED response
  /\ UNCHANGED <<endpoint, request, backend, upload, calls, events, callVars>>

\* generate with the result of the model check ignored: the generate call
\* follows the listing call whatever it reported.
ProviderCheckModelIgnored ==
  /\ pc = "check_model"
  /\ calls' = Append(calls, "GET /api/tags")
  /\ pc' = "generate"
  /\ UNCHANGED <<endpoint, request, backend, upload, provider, events, response,
                 callVars>>

\* OllamaProvider.generate, first part: the listing call and the model check.
ProviderCheckModel ==
  /\ pc = "check_model"
  /\ calls' = Append(calls, "GET /api/tags")
  /\ IF CheckModelExists(provider.model_name, backend.tags)
     THEN pc' = "generate" /\ UNCHANGED response
     ELSE Respond(RouteExcept(ModelNotFoundError(provider.model_name, "ollama")))
  /\ UNCHANGED <<endpoint, request, backend, upload, provider, events, callVars>>

\* OllamaProvider.generate, second part: the generate call and its result,
\* returned by the route or mapped by its except clauses.
ProviderGenerateCall ==
  /\ pc = "generate"
  /\ calls' = Append(calls, "POST /api/generate")
  /\ LET result == ProviderGenerate(provider, request, backend.generate)
     IN IF Raised(result.raised)
        THEN Respond(RouteExcept(result.raised))
        ELSE Respond([status |-> HTTP_200_OK, body |-> result.value])
  /\ UNCHANGED <<endpoint, request, backend, upload, provider, events, callVars>>

\* generate_text_stream with the model check made in the route, before the
\* response starts: an absent model is answered 404.
StreamRouteEager ==
  /\ pc = "route" /\ endpoint = "stream"
  /\ IF CheckModelExists(GetProviderForRequest(request, NoneStr).model_name, backend.tags)
     THEN /\ response' = [status |-> HTTP_200_OK, body |-> "text/event-stream"]
          /\ pc' = "stream_body"
     ELSE Respond(ErrorResponse(HTTP_404_NOT_FOUND,
                                ToDict(ModelNotFoundError(
                                         GetProviderForRequest(request, NoneStr).model_name,
                                         "ollama"))))
  /\ UNCHANGED <<endpoint, request, backend, upload, provider, calls, events, callVars>>

\* generate_text_stream: the route builds the StreamingResponse around the
\* generator generate_chunks(), which has not started; the response's status
\* line and headers are sent.
StreamRoute ==
  /\ pc = "route" /\ endpoint = "stream"
  /\ response' = [status |-> HTTP_200_OK, body |-> "text/event-stream"]
  /\ pc' = "stream_body"
  /\ UNCHANGED <<endpoint, request, backend, upload, provider, calls, events, callVars>>

\* The response body: generate_chunks() iterated to its end.
StreamBody ==
  /\ pc = "stream_body"
  /\ LET run == ServiceGenerateTextStream(request, backend.tags, backend.stream)
     IN /\ provider' = run.provider
        /\ calls' = calls \o run.calls
        /\ events' = events \o GenerateChunks(run)
  /\ pc' = "done"
  /\ UNCHANGED <<endpoint, request, backend, upload, response, callVars>>

\* POST /document/question arrives with form fields that passed validation.
ReceiveDocument ==
  /\ pc = "idle"
  /\ \E filename \in Filenames, content \in FileContents, available \in BOOLEAN :
       upload' = [filename |-> filename, content |-> content, pypdf_available |-> available]
  /\ \E question \in Questions, model \in DocumentModels, mode \in {"full", "summary"},
        tags \in HandlerTagsReplies, gen \in GenReplies :
       /\ request' = [question |-> question, model |-> model, context_mode |-> mode]
       /\ backend' = [tags |-> tags, generate |-> gen, stream |-> NoReply]
  /\ endpoint' = "document"
  /\ pc' = "route"
  /\ UNCHANGED <<provider, calls, events, response, callVars>>

\* ask_document_question without its two checks of the upload: every upload
\* goes to the document service.
DocumentRouteUnchecked ==
  /\ pc = "route" /\ endpoint = "document"
  /\ request' = DocumentQuestionRequest(request.question, request.model, request.context_mode)
  /\ pc' = "extract"
  /\ UNCHANGED <<endpoint, backend, upload, provider, calls, events, response,
                 callVars>>

\* ask_document_question up to the service's first await: the file type and
\* the empty-file checks, whose HTTPExceptions are raised inside the try block
\* and so meet the except clauses, then the request object.
DocumentRoute ==
  /\ pc = "route" /\ endpoint = "document"
  /\ IF ~Truthy(upload.filename) \/ ~EndsWith(Lower(upload.filename), S_dot_pdf)
     THEN /\ Respond(AskDocumentExcept(
                       HTTPException(HTTP_400_BAD_REQUEST,
                                     "Only PDF files are supported. Please upload a .pdf file.")))
          /\ UNCHANGED request
     ELSE IF upload.content.size = 0
     THEN /\ Respond(AskDocumentExcept(
                       HTTPException(HTTP_400_BAD_REQUEST, "Uploaded file is empty")))
          /\ UNCHANGED request
     ELSE /\ request' = DocumentQuestionRequest(request.question, request.model,
                                                request.context_mode)
          /\ pc' = "extract"
          /\ UNCHANGED response
  /\ UNCHANGED <<endpoint, backend, upload, provider, calls, events, callVars>>

\* answer_question_about_document up to the provider's first await: the
\* format check, the extraction, the prompt, the generation request and the
\* service's choice of provider.
DocumentExtract ==
  /\ pc = "extract"
  /\ IF ~SupportsFormat(upload.filename)
     THEN /\ Respond(AskDocumentExcept(
                       Raise("ValueError",
                             <<"Unsupported document format. Only PDF files are currently supported.">>)))
          /\ UNCHANGED <<request, provider, calls>>
     ELSE LET extracted == ExtractText(upload.content, upload.filename, upload.pypdf_available)
          IN /\ calls' = Append(calls, "extract_text")
             /\ IF Raised(extracted.raised)
                THEN /\ Respond(AskDocumentExcept(extracted.raised))
                     /\ UNCHANGED <<request, provider>>
                ELSE /\ request' = [request EXCEPT
                                      !.prompt = BuildPrompt(request.question, extracted.text,
                                                             request.context_mode)]
                     /\ provider' = GetProviderForRequest(request, NoneStr)
                     /\ pc' = "check_model"
                     /\ UNCHANGED response
  /\ UNCHANGED <<endpoint, backend, upload, events, callVars>>

\* health_check with nothing caught around the service's answer: a failed
\* probe answers 500.
HealthResponseUnguarded(is_healthy) ==
  IF is_healthy
  THEN [status |-> HTTP_200_OK,
        body |-> [status |-> "healthy", model_loaded |-> TRUE,
                  model_info |-> GetModelInfo(DefaultProvider)]]
  ELSE ErrorResponse(HTTP_500_INTERNAL_SERVER_ERROR, "unhealthy")

\* HealthResponse(status=..., model_loaded=..., model_info=...); an absent
\* model_info is the record with no fields.
HealthResponse(is_healthy) ==
  [status |-> HTTP_200_OK,
   body |-> [status |-> IF is_healthy THEN "healthy" ELSE "unhealthy",
             model_loaded |-> is_healthy,
             model_info |-> IF is_healthy THEN GetModelInfo(DefaultProvider) ELSE <<>>]]

\* health_check: the probe of the backend and the answer.
HealthRoute ==
  /\ pc = "route" /\ endpoint = "health"
  /\ calls' = Append(calls, "GET /api/tags")
  /\ Respond(HealthResponse(ProviderHealthCheck(backend.tags)))
  /\ UNCHANGED <<endpoint, request, backend, upload, provider, events, callVars>>

Next ==
  \/ ReceiveGenerate
  \/ ReceiveStream
  \/ ReceiveHealth
  \/ GenerateRoute
  \/ ProviderCheckModel
  \/ ProviderGenerateCall
  \/ StreamRoute
  \/ StreamBody
  \/ HealthRoute
  \/ ReceiveDocument
  \/ DocumentRoute
  \/ DocumentExtract

Spec == Init /\ [][Next]_vars

----------------------------------------------------------------------------
(* SpecResolver: check_model_exists called on a name and a listing reply *)

MaxCatalog == 2

RequestedNames == {N_llama2, N_Llama2, N_llama, N_llama3, N_llama2_latest, N_llama2_7b}

CatalogFields == {<<>>, N_llama2_latest, N_llama2_7b, N_LLAMA2_7B, N_llama3_latest}

CatalogEntries == {Entry(n, m) : n \in CatalogFields, m \in CatalogFields}

Catalogs == UNION {[1..k -> CatalogEntries] : k \in 0..MaxCatalog}

InitResolver ==
  /\ HandlerIdle
  /\ composer = ComposerIdle
  /\ validator = ValidatorIdle
  /\ chooser = ChooserIdle
  /\ builder = BuilderIdle
  /\ relay = RelayIdle
  /\ pool = PoolIdle
  /\ \E n \in RequestedNames :
       \E r \in {TagsReply(HTTP_200_OK, c) : c \in Catalogs} \cup FailedTagsReplies :
         resolver = [pc |-> "called", model_name |-> n, reply |-> r, result |-> FALSE]

ResolverReturn ==
  /\ resolver.pc = "called"
  /\ resolver' = [resolver EXCEPT !.pc = "returned",
                                  !.result = CheckModelExists(resolver.model_name, resolver.reply)]
  /\ UNCHANGED <<handlerVars, composer, validator, chooser, builder, relay, pool>>

NextResolver == ResolverReturn

SpecResolver == InitResolver /\ [][NextResolver]_vars

----------------------------------------------------------------------------
(* SpecPrompt: _build_prompt called on a question, a text and a context mode *)

MaxShortLen == 2
MaxOver == 2

\* Texts whose characters differ by position, so that a shifted or reordered
\* copy is not the same text.
DocText(n, period) == [i \in 1..n |-> IF i % period = 0 THEN "x" ELSE "y"]

DocLengths == (0..MaxShortLen) \cup ((max_chars - MaxOver)..(max_chars + MaxOver))

DocTexts == {DocText(n, period) : n \in DocLengths, period \in {2, 3}}

\* context_mode is a free-form string of the form; "Summary" stands for any
\* value that is none of the three documented ones.
ContextModes == {"full", "summary", "smart", "Summary"}

InitPrompt ==
  /\ HandlerIdle
  /\ resolver = ResolverIdle
  /\ validator = ValidatorIdle
  /\ chooser = ChooserIdle
  /\ builder = BuilderIdle
  /\ relay = RelayIdle
  /\ pool = PoolIdle
  /\ \E q \in Questions, t \in DocTexts, m \in ContextModes :
       composer = [pc |-> "called", question |-> q, document_text |-> t,
                   context_mode |-> m, prompt |-> <<>>]

ComposerReturn ==
  /\ composer.pc = "called"
  /\ composer' = [composer EXCEPT
                   !.pc = "returned",
                   !.prompt = BuildPrompt(composer.question, composer.document_text,
                                          composer.context_mode)]
  /\ UNCHANGED <<handlerVars, resolver, validator, chooser, builder, relay, pool>>

NextPrompt == ComposerReturn

SpecPrompt == InitPrompt /\ [][NextPrompt]_vars

----------------------------------------------------------------------------
(* Claims about the routes, checked under Spec *)

Done == pc = "done"

\* The model the request resolves to: the one it names, else the default.
ResolvedModel == IF Truthy(request.model) THEN request.model ELSE DefaultModelName

\* The listing call succeeds and the catalog holds the name, as the spec's
\* resolver defines it.
InCatalog(name) ==
  /\ backend.tags.kind = "reply"
  /\ backend.tags.status = 200
  /\ \E i \in DOMAIN backend.tags.models :
       \E f \in {backend.tags.models[i].name, backend.tags.models[i].model} :
         \/ Lower(f) = (IF HasChar(name, ":") THEN Lower(name)
                        ELSE Lower(name) \o <<":","l","a","t","e","s","t">>)
         \/ StartsWith(Lower(f), Lower(name) \o <<":">>)

\* The listing call succeeds and the catalog does not hold the name.
NotInCatalog(name) ==
  /\ backend.tags.kind = "reply"
  /\ backend.tags.status = 200
  /\ ~InCatalog(name)

\* Every line of the backend's stream carries a response fragment.
AllFragments(lines) ==
  \A i \in DOMAIN lines : lines[i].kind = "json" /\ "response" \in DOMAIN lines[i].data

\* C1: on POST /generate/stream with a model in the catalog, a backend stream
\* of n fragments that closes normally yields n text events, in order, then
\* exactly one [DONE] and nothing else; for "Hello", " world" the events are
\* text "Hello", text " world", [DONE].
C1_StreamRelaysFragmentsThenDone ==
  (/\ Done
   /\ endpoint = "stream"
   /\ InCatalog(ResolvedModel)
   /\ backend.stream.status = 200
   /\ backend.stream.ending = "close"
   /\ AllFragments(backend.stream.lines))
  => events = [i \in DOMAIN backend.stream.lines |->
                 [event |-> "text", data |-> [text |-> backend.stream.lines[i].data.response]]]
              \o << [event |-> "done", data |-> [literal |-> "[DONE]"]] >>

\* C2: on POST /generate/stream, when the backend stream fails after one
\* fragment, the events are the text event of that fragment, then exactly one
\* error event, and no [DONE].
C2_MidStreamFailureEndsWithOneError ==
  (/\ Done
   /\ endpoint = "stream"
   /\ InCatalog(ResolvedModel)
   /\ backend.stream.status = 200
   /\ backend.stream.ending = "fail"
   /\ Len(backend.stream.lines) = 1
   /\ AllFragments(backend.stream.lines))
  => /\ Len(events) = 2
     /\ events[1] = [event |-> "text",
                     data |-> [text |-> backend.stream.lines[1].data.response]]
     /\ events[2].event = "error"
     /\ \A i \in DOMAIN events : events[i].event # "done"

\* C3: POST /generate with a valid body whose stream flag is true is answered
\* 400 with the message that names the streaming endpoint, and no call to the
\* backend is made.
C3_StreamFlagOnGenerateIs400 ==
  (Done /\ endpoint = "generate" /\ request.stream)
  => /\ response.status = 400
     /\ response.body.detail = "Use /generate/stream endpoint for streaming responses"
     /\ calls = <<>>

\* C4: POST /generate naming a model that the catalog does not hold is answered
\* 404 with a body of error, model_name (the name asked for), provider, message
\* and instructions, the latter exactly download_command ("ollama pull <name>"),
\* list_models_command and browse_models_url.
C4_AbsentModelIs404WithInstructions ==
  (/\ Done
   /\ endpoint = "generate"
   /\ ~request.stream
   /\ Truthy(request.model)
   /\ NotInCatalog(request.model))
  => /\ response.status = 404
     /\ DOMAIN response.body.detail = {"error", "model_name", "provider", "message", "instructions"}
     /\ response.body.detail.model_name = request.model
     /\ DOMAIN response.body.detail.instructions =
          {"download_command", "list_models_command", "browse_models_url"}
     /\ response.body.detail.instructions.download_command =
          <<"o","l","l","a","m","a"," ","p","u","l","l"," ">> \o request.model

C4_Witness ==
  /\ Done
  /\ endpoint = "generate"
  /\ request.model = N_ghost
  /\ backend.tags = TagsReply(200, <<Entry(N_llama2_latest, N_llama2_latest)>>)
  /\ calls = <<"GET /api/tags">>
  /\ response.status = 404

\* C7: GET /health is answered 200 whatever the backend does (a reply, no
\* connection, a timeout, a non-2xx reply), with status "healthy" when the
\* backend answered the probe with 200 and "unhealthy" otherwise.
C7_HealthIsAlways200 ==
  (Done /\ endpoint = "health")
  => /\ response.status = 200
     /\ response.body.status =
          (IF backend.tags.kind \in {"transport", "timeout"} \/ backend.tags.status # 200
           THEN "unhealthy" ELSE "healthy")

C7_Witness ==
  /\ Done
  /\ endpoint = "health"
  /\ backend.tags.kind = "timeout"
  /\ response.status = 200
  /\ response.body.status = "unhealthy"

\* The upload the document route must refuse: no ".pdf" at the end of its
\* name, or no bytes.
RefusedUpload ==
  \/ ~Truthy(upload.filename)
  \/ ~EndsWith(Lower(upload.filename), <<".","p","d","f">>)
  \/ upload.content.size = 0

\* C8: POST /document/question with a file name that does not end in .pdf, or
\* with zero-byte content, is answered 400.
C8_RefusedUploadIs400 ==
  (Done /\ endpoint = "document" /\ RefusedUpload) => response.status = 400

\* Text extraction was attempted and failed: the bytes are no readable PDF, or
\* the extraction capability is not installed.
ExtractionFailed ==
  /\ calls = <<"extract_text">>
  /\ (~upload.content.readable \/ ~upload.pypdf_available)

\* C9 as the spec states it: a document question on which text extraction
\* fails is answered 500.
C9_ExtractionFailureIs500 ==
  (Done /\ endpoint = "document" /\ ExtractionFailed) => response.status = 500

\* C9 amended: a document question on which text extraction fails is answered
\* 400.
C9_ExtractionFailureIs400 ==
  (Done /\ endpoint = "document" /\ ExtractionFailed) => response.status = 400

C9_Witness ==
  /\ Done
  /\ endpoint = "document"
  /\ ExtractionFailed
  /\ ~upload.content.readable
  /\ upload.pypdf_available
  /\ response.status = 400

----------------------------------------------------------------------------
(* Claims about the model resolver, checked under SpecResolver *)

ResolverReturned == resolver.pc = "returned"

\* The listing call answered 200 with a body that parses.
ResolverListed == resolver.reply.kind = "reply" /\ resolver.reply.status = HTTP_200_OK

\* The name and model fields of the listed catalog, and those that hold a name.
AllListedFields ==
  {resolver.reply.models[i].name : i \in DOMAIN resolver.reply.models}
    \cup {resolver.reply.models[i].model : i \in DOMAIN resolver.reply.models}
ListedFields == {f \in AllListedFields : f # <<>>}

\* C5 as the spec states it: a request that carries an explicit tag is reported
\* present when the catalog holds the same base model under a different tag;
\* exists("llama2:7b", ["llama2:latest"]) is true.
C5_TaggedRequestMatchesOtherTag ==
  (/\ ResolverReturned
   /\ resolver.model_name = N_llama2_7b
   /\ resolver.reply = TagsReply(HTTP_200_OK, <<Entry(N_llama2_latest, N_llama2_latest)>>))
  => resolver.result = TRUE

\* C5 amended: a request that carries an explicit tag is reported absent when
\* every name the catalog holds is the same base model under a different tag;
\* exists("llama2:7b", ["llama2:latest"]) is false.
C5_TaggedRequestNeedsItsTag ==
  (/\ ResolverReturned
   /\ ResolverListed
   /\ HasChar(resolver.model_name, ":")
   /\ ListedFields # {}
   /\ \A f \in ListedFields :
        /\ BaseOf(Lower(f)) = BaseOf(Lower(resolver.model_name))
        /\ TagOf(Lower(f)) # TagOf(Lower(resolver.model_name)))
  => resolver.result = FALSE

C5_Witness ==
  /\ ResolverReturned
  /\ resolver.model_name = N_llama2_7b
  /\ resolver.reply = TagsReply(HTTP_200_OK, <<Entry(N_llama2_latest, N_llama2_latest)>>)
  /\ resolver.result = FALSE

\* C6: on a listed catalog, check_model_exists answers true exactly when some
\* entry's name or model field, lower-cased, equals the normalized request
\* (lower-cased, ":latest" appended when it has no colon) or starts with the
\* lower-cased request followed by ":"; with the four examples of the claim.
C6_MatchesExactlyListedNames ==
  LET asked == resolver.model_name
      normalized == IF \E i \in DOMAIN asked : asked[i] = ":"
                    THEN Lower(asked)
                    ELSE Lower(asked) \o <<":","l","a","t","e","s","t">>
      prefix == Lower(asked) \o <<":">>
      Example(name, catalog, expected) ==
        (resolver.model_name = name /\ resolver.reply = TagsReply(HTTP_200_OK, catalog))
        => resolver.result = expected
  IN (ResolverReturned /\ ResolverListed) =>
       /\ resolver.result =
            (\E f \in AllListedFields : Lower(f) = normalized \/ StartsWith(Lower(f), prefix))
       /\ Example(N_llama2, <<Entry(N_llama2_latest, N_llama2_latest)>>, TRUE)
       /\ Example(N_llama2, <<Entry(N_llama2_7b, N_llama2_7b)>>, TRUE)
       /\ Example(N_llama3, <<Entry(N_llama2_latest, N_llama2_latest)>>, FALSE)
       /\ (resolver.reply.models = <<>> => resolver.result = FALSE)

C6_Witness ==
  /\ ResolverReturned
  /\ resolver.model_name = N_llama2
  /\ resolver.reply = TagsReply(HTTP_200_OK, <<Entry(N_LLAMA2_7B, <<>>)>>)
  /\ resolver.result = TRUE

----------------------------------------------------------------------------
(* Claims about prompt composition, checked under SpecPrompt *)

\* C10: in summary mode a text longer than 4000 characters is embedded as its
\* first 4000 characters followed by the truncation marker and a text of at
\* most 4000 characters is embedded unchanged; in full mode the whole text is
\* embedded unmodified whatever its length.
C10_SummaryTruncatesFullEmbedsAll ==
  LET text == composer.document_text
      prompt == composer.prompt
      tail == PromptQuestionLabel \o composer.question \o PromptAnswerLabel
      embedded == SubSeq(prompt, Len(PromptHead) + 1, Len(prompt) - Len(tail))
  IN composer.pc = "returned" =>
       /\ StartsWith(prompt, PromptHead)
       /\ EndsWith(prompt, tail)
       /\ (composer.context_mode = "summary" /\ Len(text) > 4000) =>
            /\ Len(embedded) = 4000 + Len(TruncationMarker)
            /\ \A i \in 1..4000 : embedded[i] = text[i]
            /\ SubSeq(embedded, 4001, Len(embedded)) = TruncationMarker
       /\ (composer.context_mode = "summary" /\ Len(text) <= 4000) => embedded = text
       /\ composer.context_mode = "full" => embedded = text

C10_Witness ==
  /\ composer.pc = "returned"
  /\ composer.context_mode = "summary"
  /\ Len(composer.document_text) = 4001

----------------------------------------------------------------------------
(* Claims about validation and the backend's failures, checked under Spec *)

\* The request is a generation request and its prompt is empty or holds
\* whitespace only.
BlankPromptRequest ==
  /\ endpoint \in {"generate", "stream"}
  /\ \A i \in DOMAIN request.prompt : request.prompt[i] \in {" ", "\n", "\t", "\r"}

\* C11: a generation request whose prompt is empty or whitespace-only fails
\* validation: it is answered with the validation error naming the prompt, the
\* route is never entered, and no call, listing or generate, is made to the
\* backend.
C11_BlankPromptFailsBeforeAnyCall ==
  BlankPromptRequest
  => /\ pc = "rejected"
     /\ response.status = 422
     /\ "prompt" \in response.body.detail
     /\ calls = <<>>
     /\ events = <<>>

C11_Witness ==
  /\ pc = "rejected"
  /\ endpoint = "generate"
  /\ request.prompt = <<" ">>
  /\ backend.tags = TagsReply(200, <<Entry(N_llama2_latest, N_llama2_latest)>>)
  /\ calls = <<>>

\* The backend does not answer the call, or answers it with a status outside
\* 2xx.
CommunicationFailure(reply) ==
  \/ reply.kind \in {"transport", "timeout"}
  \/ reply.kind = "reply" /\ (reply.status < 200 \/ reply.status > 299)

\* The call was made and the backend failed it.
FailedAtListing ==
  /\ \E i \in DOMAIN calls : calls[i] = "GET /api/tags"
  /\ CommunicationFailure(backend.tags)
FailedAtGenerate ==
  /\ \E i \in DOMAIN calls : calls[i] = "POST /api/generate"
  /\ CommunicationFailure(backend.generate)

\* C13 as the spec states it: on POST /generate a network error, a timeout or
\* a non-2xx reply is answered 500 at whichever of the request's backend calls
\* it occurs, the listing call or the generate call.
C13_BackendFailureIs500AtAnyCall ==
  (Done /\ endpoint = "generate" /\ (FailedAtListing \/ FailedAtGenerate))
  => response.status = 500

\* C13 amended: on POST /generate a network error, a timeout or a non-2xx
\* reply at the generate call is answered 500 with a message; at the listing
\* call it is answered 404, model not found, and no generate call follows.
C13_BackendFailureIs500AtGenerateCall ==
  /\ (Done /\ endpoint = "generate" /\ FailedAtGenerate)
     => /\ response.status = 500
        /\ response.body.detail[1] = "Failed to generate text: "
  /\ (Done /\ endpoint = "generate" /\ FailedAtListing)
     => /\ response.status = 404
        /\ calls = <<"GET /api/tags">>

C13_Witness ==
  /\ Done
  /\ endpoint = "generate"
  /\ backend.generate.kind = "timeout"
  /\ calls = <<"GET /api/tags", "POST /api/generate">>
  /\ response.status = 500

\* The generate call was made and brought no result: no reply, a reply with
\* a status outside 2xx, or a reply whose body is not JSON.
GenerateCallBroughtNoResult ==
  /\ \E i \in DOMAIN calls : calls[i] = "POST /api/generate"
  /\ ~(backend.generate.kind = "reply"
       /\ backend.generate.status >= 200 /\ backend.generate.status <= 299)

\* C14: on POST /generate a failure that is neither a validation error of the
\* request nor model-not-found, such as a backend reply that is not parseable
\* JSON, is answered 500 with a message.
C14_UnexpectedFailureIs500 ==
  (Done /\ endpoint = "generate" /\ GenerateCallBroughtNoResult)
  => /\ response.status = 500
     /\ response.body.detail[1] = "Failed to generate text: "

\* C15: a successful POST /generate reports as model_used the model the
\* request names when it names one (a non-empty model field), and the
\* configured default model when it names none.
C15_ModelUsedIsTheRequestedOrDefault ==
  (Done /\ endpoint = "generate" /\ response.status = 200)
  => response.body.model_used =
       (IF request.model # <<"None">> /\ request.model # <<>>
        THEN request.model
        ELSE <<"l","l","a","m","a","2">>)

C15_Witness ==
  /\ Done
  /\ endpoint = "generate"
  /\ response.status = 200
  /\ request.model = N_llama3
  /\ response.body.model_used = N_llama3

----------------------------------------------------------------------------
(* Claims about the event stream and the order of calls, checked under Spec *)

\* C16: on POST /generate/stream, when the catalog is listed and does not
\* hold the resolved model, the event stream is one event carrying the
\* not-found payload (error, model_name, provider, message, instructions) and
\* no [DONE] event.
C16_AbsentModelIsFinalStreamEvent ==
  (Done /\ endpoint = "stream" /\ NotInCatalog(ResolvedModel))
  => /\ Len(events) = 1
     /\ events[1].event = "not_found"
     /\ DOMAIN events[1].data = {"error", "model_name", "provider", "message", "instructions"}
     /\ events[1].data.error = "Model Not Found"
     /\ events[1].data.model_name = ResolvedModel

\* The request is one that generates text.
GeneratingRequest == endpoint \in {"generate", "stream", "document"} /\ pc # "rejected"

\* C17: on the buffered and the streaming path, every generate call sent to
\* the backend comes after a listing call of the same request that found the
\* resolved model in the catalog; a request whose model the check reports
\* absent never enters the generating step, sends no generate call and ends
\* as model-not-found. The same order holds of the calls the streaming
\* generator of the provider makes when it is iterated.
C17_ModelCheckPrecedesGenerate ==
  GeneratingRequest
  => /\ \A i \in DOMAIN calls :
          calls[i] = "POST /api/generate"
          => /\ \E j \in 1..(i - 1) : calls[j] = "GET /api/tags"
             /\ InCatalog(ResolvedModel)
     /\ pc = "generate" => InCatalog(ResolvedModel)
     /\ (/\ Done
         /\ \E j \in DOMAIN calls : calls[j] = "GET /api/tags"
         /\ ~InCatalog(ResolvedModel))
        => /\ \A i \in DOMAIN calls : calls[i] # "POST /api/generate"
           /\ response.status = 404
     /\ (endpoint = "stream" /\ pc \in {"stream_body", "done"})
        => LET body == ProviderGenerateStream(GetProviderForRequest(request, NoneStr),
                                              request, backend.tags, backend.stream)
           IN /\ body.calls[1] = "GET /api/tags"
              /\ (\E i \in DOMAIN body.calls : body.calls[i] = "POST /api/generate")
                   <=> InCatalog(ResolvedModel)
              /\ ~InCatalog(ResolvedModel) => body.raised.cls = "ModelNotFoundError"

C17_Witness ==
  /\ Done
  /\ endpoint = "generate"
  /\ InCatalog(ResolvedModel)
  /\ calls = <<"GET /api/tags", "POST /api/generate">>
  /\ response.status = 200

\* Fetching the catalog failed: no connection, a timeout, a status other than
\* 200, or a body that is not JSON.
ListingFailed ==
  \/ backend.tags.kind \in {"transport", "timeout", "badjson"}
  \/ backend.tags.status # 200

\* C18: when fetching the catalog fails, check_model_exists answers false for
\* every model name, and a request that made the listing call ends as
\* model-not-found, 404 with the not-found payload, having sent no generate
\* call.
C18_ListingFailureIsModelNotFound ==
  (GeneratingRequest /\ pc # "idle" /\ ListingFailed)
  => /\ \A n \in RequestedNames \cup RequestModels : ~CheckModelExists(n, backend.tags)
     /\ pc # "generate"
     /\ (Done /\ \E j \in DOMAIN calls : calls[j] = "GET /api/tags")
        => /\ response.status = 404
           /\ response.body.detail.error = "Model Not Found"
           /\ response.body.detail.model_name = ResolvedModel
           /\ \A i \in DOMAIN calls : calls[i] # "POST /api/generate"

C18_Witness ==
  /\ Done
  /\ endpoint = "generate"
  /\ backend.tags = TagsTimeout
  /\ request.model = N_llama2
  /\ calls = <<"GET /api/tags">>
  /\ response.status = 404

\* C19: for an upload whose name does not end in .pdf, or whose content is
\* empty, the document route never reaches extraction or the provider: no
\* extraction call and no backend call is made at any point of the request,
\* and the request ends refused.
C19_RefusedUploadMakesNoCall ==
  (endpoint = "document" /\ RefusedUpload)
  => /\ calls = <<>>
     /\ pc \in {"route", "done"}
     /\ Done => response.status >= 400

C19_Witness ==
  /\ Done
  /\ endpoint = "document"
  /\ upload.filename = S_a_pdf
  /\ upload.content.size = 0
  /\ upload.pypdf_available
  /\ calls = <<>>

\* The lines of the backend's stream that carry a response field, in order.
HasResponse(line) == line.kind = "json" /\ "response" \in DOMAIN line.data
ResponseLines(lines) == SelectSeq(lines, HasResponse)

\* The text events of the event stream, in order.
IsTextEvent(e) == e.event = "text"
TextEvents == SelectSeq(events, IsTextEvent)

\* C20: in a streaming response whose backend stream holds only well-formed
\* lines, the text events are, one per line and in the backend's order, the
\* response values of the non-empty lines that hold a response field; a line
\* without one gives no event.
C20_TextEventsFollowBackendOrder ==
  (/\ Done
   /\ endpoint = "stream"
   /\ InCatalog(ResolvedModel)
   /\ backend.stream.status = 200
   /\ \A i \in DOMAIN backend.stream.lines : backend.stream.lines[i].kind # "garbage")
  => /\ Len(TextEvents) = Len(ResponseLines(backend.stream.lines))
     /\ \A i \in DOMAIN TextEvents :
          TextEvents[i].data.text = ResponseLines(backend.stream.lines)[i].data.response

\* The service has chosen the provider of the request.
ProviderChosen ==
  /\ endpoint \in {"generate", "stream", "document"}
  /\ \/ pc \in {"check_model", "generate"}
     \/ Done /\ endpoint = "stream"
     \/ Done /\ \E i \in DOMAIN calls : calls[i] = "GET /api/tags"

\* C21: a request that names a model other than the default provider's is
\* served by a handle constructed for it and bound to that name; a request
\* that names no model, or the default provider's model, is served by the
\* default bound provider, and no handle is constructed.
C21_SwitchBuildsHandleElseDefaultReused ==
  ProviderChosen
  => IF request.model # <<"None">> /\ request.model # <<>>
        /\ request.model # <<"l","l","a","m","a","2">>
     THEN /\ ~provider.shared
          /\ provider.model_name = request.model
          /\ provider.base_url = OllamaBaseUrl
     ELSE /\ provider.shared
          /\ provider.model_name = <<"l","l","a","m","a","2">>
          /\ provider.base_url = OllamaBaseUrl

C21_Witness ==
  /\ pc = "check_model"
  /\ endpoint = "generate"
  /\ request.model = N_llama3
  /\ ~provider.shared
  /\ provider.model_name = N_llama3

\* A sequence of events that ends with exactly one terminal event, [DONE] or
\* an error (generic or not-found), with text events only before it.
OneTerminalEvent(evs) ==
  /\ Len(evs) >= 1
  /\ evs[Len(evs)].event \in {"done", "error", "not_found"}
  /\ \A i \in 1..(Len(evs) - 1) : evs[i].event = "text"

\* C27: a streaming response that runs to its end ends with exactly one
\* terminal event, [DONE] or one error event, and no text event follows it.
\* The same holds of the events generate_chunks makes of the provider's
\* streaming generator for this request.
C27_StreamEndsWithOneTerminalEvent ==
  (Done /\ endpoint = "stream")
  => /\ OneTerminalEvent(events)
     /\ OneTerminalEvent(GenerateChunks(
          ProviderGenerateStream(provider, request, backend.tags, backend.stream)))

C27_Witness ==
  /\ Done
  /\ endpoint = "stream"
  /\ InCatalog(ResolvedModel)
  /\ Len(backend.stream.lines) = 2
  /\ backend.stream.ending = "fail"
  /\ Len(events) = 1

\* C28: POST /generate/stream with a valid body is answered 200 with an
\* event stream whatever the catalog and the backend do; a missing model, an
\* unreachable backend or a failing stream shows only as the last event of
\* the stream, never as a 404 or 500 response.
C28_StreamAlwaysAnswers200 ==
  (endpoint = "stream" /\ pc \in {"stream_body", "done"})
  => /\ response.status = 200
     /\ response.body = "text/event-stream"
     /\ (/\ Done
         /\ \/ ~InCatalog(ResolvedModel)
            \/ backend.stream.status # 200
            \/ backend.stream.ending = "fail")
        => /\ events # <<>>
           /\ events[Len(events)].event \in {"error", "not_found"}

C28_Witness ==
  /\ Done
  /\ endpoint = "stream"
  /\ request.model = N_ghost
  /\ NotInCatalog(ResolvedModel)
  /\ response.status = 200
  /\ events # <<>>

\* C29: in a GET /health response status is "healthy" exactly when
\* model_loaded is true, model_info is present exactly when model_loaded is
\* true, and model_loaded is true exactly when the listing call was answered
\* with status 200, whatever the catalog holds.
C29_HealthFieldsAgree ==
  (Done /\ endpoint = "health")
  => /\ response.body.status \in {"healthy", "unhealthy"}
     /\ (response.body.status = "healthy") <=> response.body.model_loaded
     /\ (DOMAIN response.body.model_info # {}) <=> response.body.model_loaded
     /\ response.body.model_loaded
          <=> (backend.tags.kind \in {"reply", "badjson"} /\ backend.tags.status = 200)

C29_Witness ==
  /\ Done
  /\ endpoint = "health"
  /\ backend.tags = TagsReply(200, <<>>)
  /\ response.body.model_loaded
  /\ response.body.model_info.model_name = N_llama2

----------------------------------------------------------------------------
(* SpecRequest: GenerateRequest constructed from the fields of a body *)

\* How far beyond each end of a range the values of a body go.
MaxSlack == 1

\* The values within MaxSlack of a bound.
Around(bound) == (bound - MaxSlack)..(bound + MaxSlack)

MaxTokensValues == Around(max_tokens_ge) \cup Around(max_tokens_le) \cup {max_tokens_default}
TemperatureValues == Around(temperature_ge) \cup Around(temperature_le) \cup {temperature_default}
TopPValues == Around(top_p_ge) \cup Around(top_p_le) \cup {top_p_default}
TopKValues == Around(top_k_ge) \cup {top_k_default}

Bodies ==
  {[RequestBody(prompt, FALSE, NoneStr) EXCEPT
      !.max_tokens = mt, !.temperature = t, !.top_p = p, !.top_k = k] :
     prompt \in Prompts \cup BlankPrompts, mt \in MaxTokensValues,
     t \in TemperatureValues, p \in TopPValues, k \in TopKValues}

InitRequest ==
  /\ HandlerIdle
  /\ resolver = ResolverIdle
  /\ composer = ComposerIdle
  /\ chooser = ChooserIdle
  /\ builder = BuilderIdle
  /\ relay = RelayIdle
  /\ pool = PoolIdle
  /\ \E body \in Bodies :
       validator = [pc |-> "called", body |-> body, errors |-> {}, ok |-> FALSE]

RequestConstruct ==
  /\ validator.pc = "called"
  /\ validator' = [validator EXCEPT
                     !.pc = "returned",
                     !.errors = GenerateRequest(validator.body).errors,
                     !.ok = ~Raised(GenerateRequest(validator.body).raised)]
  /\ UNCHANGED <<handlerVars, resolver, composer, chooser, builder, relay, pool>>

NextRequest == RequestConstruct

SpecRequest == InitRequest /\ [][NextRequest]_vars

----------------------------------------------------------------------------
(* Claims about GenerateRequest, checked under SpecRequest *)

\* Some sampling field of the body lies outside its range: max_tokens outside
\* [1, 4096], temperature outside [0.0, 2.0], top_p outside [0.0, 1.0] (both
\* in tenths), or top_k negative.
OutOfRange(body) ==
  \/ body.max_tokens < 1 \/ body.max_tokens > 4096
  \/ body.temperature < 0 \/ body.temperature > 20
  \/ body.top_p < 0 \/ body.top_p > 10
  \/ body.top_k < 0

\* C12: constructing a generation request fails whenever a sampling field is
\* outside its range, and succeeds whenever all of them are inside and the
\* prompt is not blank.
C12_RangesDecideValidation ==
  validator.pc = "returned"
  => /\ OutOfRange(validator.body) => ~validator.ok
     /\ (/\ ~OutOfRange(validator.body)
         /\ \E i \in DOMAIN validator.body.prompt :
              validator.body.prompt[i] \notin {" ", "\n", "\t", "\r"})
        => validator.ok

C12_Witness ==
  /\ validator.pc = "returned"
  /\ validator.body.max_tokens = 4096
  /\ validator.body.temperature = 20
  /\ validator.body.top_p = 0
  /\ validator.body.top_k = 0
  /\ validator.body.prompt = <<"H","i">>
  /\ validator.ok

----------------------------------------------------------------------------
(* Claims about the context modes, checked under SpecPrompt *)

\* C23: for every question and document text, the prompt composed in smart
\* mode, and in any mode other than summary, is the prompt that full mode
\* composes of the same question and text.
C23_SmartComposesAsFull ==
  (composer.pc = "returned" /\ composer.context_mode # "summary")
  => composer.prompt = BuildPrompt(composer.question, composer.document_text, "full")

C23_Witness ==
  /\ composer.pc = "returned"
  /\ composer.context_mode = "smart"
  /\ Len(composer.document_text) = 4002
  /\ Len(composer.prompt) > 4002

----------------------------------------------------------------------------
(* SpecChoice: _get_provider_for_request called on a request and an override *)

\* The model field of a request and the model_override argument: absent,
\* empty, or a name.
ChoiceModels ==
  {NoneStr, <<>>, N_llama2, N_Llama2, N_llama3, N_ghost, N_llama2_7b, N_llama2_latest}

InitChoice ==
  /\ HandlerIdle
  /\ resolver = ResolverIdle
  /\ composer = ComposerIdle
  /\ validator = ValidatorIdle
  /\ builder = BuilderIdle
  /\ relay = RelayIdle
  /\ pool = PoolIdle
  /\ \E model \in ChoiceModels, override \in ChoiceModels :
       chooser = [pc |-> "called",
                  request |-> RequestBody(<<"H","i">>, FALSE, model),
                  model_override |-> override,
                  provider |-> DefaultProvider]

ChooserReturn ==
  /\ chooser.pc = "called"
  /\ chooser' = [chooser EXCEPT
                   !.pc = "returned",
                   !.provider = GetProviderForRequest(chooser.request, chooser.model_override)]
  /\ UNCHANGED <<handlerVars, resolver, composer, validator, builder, relay, pool>>

NextChoice == ChooserReturn

SpecChoice == InitChoice /\ [][NextChoice]_vars

----------------------------------------------------------------------------
(* Claims about the choice of provider, checked under SpecChoice *)

\* An optional name that is absent or empty.
NoName(x) == x = <<"None">> \/ x = <<>>

\* The handle a name is served by: the default bound provider for the default
\* model's name, a handle built for the name otherwise.
ServedBy(name, p) ==
  /\ p.model_name = name
  /\ p.base_url = OllamaBaseUrl
  /\ p.shared <=> name = <<"l","l","a","m","a","2">>

\* C30: a request whose model field is absent or empty is served, when no
\* override is given, by the default bound provider, the same for both; a
\* model_override that is given decides the provider whatever the request's
\* model field is.
C30_EmptyModelIsDefaultAndOverrideWins ==
  chooser.pc = "returned"
  => /\ (NoName(chooser.request.model) /\ NoName(chooser.model_override))
        => /\ chooser.provider.shared
           /\ ServedBy(<<"l","l","a","m","a","2">>, chooser.provider)
     /\ ~NoName(chooser.model_override)
        => ServedBy(chooser.model_override, chooser.provider)
     /\ (NoName(chooser.model_override) /\ ~NoName(chooser.request.model))
        => ServedBy(chooser.request.model, chooser.provider)

C30_Witness ==
  /\ chooser.pc = "returned"
  /\ chooser.request.model = N_llama3
  /\ chooser.model_override = N_ghost
  /\ chooser.provider.model_name = N_ghost
  /\ ~chooser.provider.shared

----------------------------------------------------------------------------
(* SpecPayload: the payload a provider builds for a validated request *)

\* stop_sequences: absent, empty, or a list of strings.
StopLists == {NoneStr, <<>>, <<"\n">>, <<"END", ".">>}

\* The requests that pass validation, with every stop list and stream flag.
PayloadRequests ==
  {[b EXCEPT !.stop_sequences = stop, !.stream = stream] :
     b \in {body \in Bodies : FieldErrors(body) = {}},
     stop \in StopLists, stream \in BOOLEAN}

InitPayload ==
  /\ HandlerIdle
  /\ resolver = ResolverIdle
  /\ composer = ComposerIdle
  /\ validator = ValidatorIdle
  /\ chooser = ChooserIdle
  /\ relay = RelayIdle
  /\ pool = PoolIdle
  /\ \E method \in {"generate", "generate_stream"}, req \in PayloadRequests,
        p \in {DefaultProvider, CreateProvider(N_llama3)} :
       builder = [pc |-> "called", method |-> method, provider |-> p, request |-> req,
                  payload |-> <<>>]

BuilderReturn ==
  /\ builder.pc = "called"
  /\ builder' = [builder EXCEPT
                   !.pc = "built",
                   !.payload = IF builder.method = "generate"
                               THEN GeneratePayload(builder.provider, builder.request)
                               ELSE GenerateStreamPayload(builder.provider, builder.request)]
  /\ UNCHANGED <<handlerVars, resolver, composer, validator, chooser, relay, pool>>

NextPayload == BuilderReturn

SpecPayload == InitPayload /\ [][NextPayload]_vars

----------------------------------------------------------------------------
(* Claims about the payload, checked under SpecPayload *)

\* C24: the payload of a generate call carries the provider's model name, the
\* request's prompt unchanged, options with num_predict equal to max_tokens
\* and temperature, top_p and top_k equal to the request's, a stop list
\* exactly when the request's stop_sequences is a non-empty list, and a stream
\* flag that is false when generate builds it and true when generate_stream
\* does, whatever the request's stream field is.
C24_PayloadCarriesRequestFields ==
  builder.pc = "built"
  => LET payload == builder.payload
         req == builder.request
         given == req.stop_sequences # <<"None">> /\ Len(req.stop_sequences) > 0
     IN /\ DOMAIN payload = {"model", "prompt", "stream", "options"}
        /\ payload.model = builder.provider.model_name
        /\ payload.prompt = req.prompt
        /\ payload.options.num_predict = req.max_tokens
        /\ payload.options.temperature = req.temperature
        /\ payload.options.top_p = req.top_p
        /\ payload.options.top_k = req.top_k
        /\ ("stop" \in DOMAIN payload.options) <=> given
        /\ given => payload.options.stop = req.stop_sequences
        /\ payload.stream <=> builder.method = "generate_stream"

C24_Witness ==
  /\ builder.pc = "built"
  /\ builder.method = "generate_stream"
  /\ ~builder.request.stream
  /\ builder.request.stop_sequences = <<"END", ".">>
  /\ builder.provider.model_name = N_llama3
  /\ builder.payload.stream

----------------------------------------------------------------------------
(* SpecRelay: a streaming response while the client may leave. Two relays  *)
(* are followed one step at a time: the response of POST /generate/stream   *)
(* as the route produces it, and OllamaProvider.generate_stream iterated    *)
(* by an `async for`, as its signature declares it. The client's leaving    *)
(* is the http.disconnect message, on which the server cancels the task     *)
(* that produces the response: a cancelled task runs no further, and        *)
(* CancelledError is raised in it at the await it is suspended on.          *)

RelayTagsReplies == {TagsReply(HTTP_200_OK, c) : c \in HandlerCatalogs}

RelayModels == {NoneStr, N_llama3}

\* The relay before its first step.
RelayStart(mode, pc_, req, p, tags, stream) ==
  [mode |-> mode, pc |-> pc_, client |-> "connected", connection |-> "none",
   request |-> req, provider |-> p, tags |-> tags, stream |-> stream,
   calls |-> <<>>, requested |-> 0, yields |-> <<>>, pending |-> <<>>, events |-> <<>>,
   raised |-> NoExc]

InitRelay ==
  /\ HandlerIdle
  /\ resolver = ResolverIdle
  /\ composer = ComposerIdle
  /\ validator = ValidatorIdle
  /\ chooser = ChooserIdle
  /\ builder = BuilderIdle
  /\ pool = PoolIdle
  /\ \E tags \in RelayTagsReplies, stream \in StreamReplies :
       \/ \E model \in RelayModels :
            relay = RelayStart("route", "response_started",
                               RequestBody(<<"H","i">>, FALSE, model), DefaultProvider,
                               tags, stream)
       \/ relay = RelayStart("provider", "start", RequestBody(<<"H","i">>, FALSE, NoneStr),
                             DefaultProvider, tags, stream)

relayUnchanged == <<handlerVars, resolver, composer, validator, chooser, builder, pool>>

\* __aexit__ of `async with self.client.stream(...)`: the response is closed
\* and its connection released, however the block is left.
AsyncWithExit(connection) == IF connection = "open" THEN "released" ELSE connection

\* The generator ends, by return or by the exception e, leaving every block
\* it is in.
Finish(r, e) ==
  [r EXCEPT !.pc = "finished", !.connection = AsyncWithExit(r.connection), !.raised = e]

\* The except clause of generate_stream's try block
StreamExcept(e) ==
  IF IsInstance(e, "HTTPError")
  THEN Raise("Exception", <<"Failed to generate streaming response: ", StrOf(e)>>)
  ELSE e

\* POST /generate/stream: the first iteration of generate_chunks(), up to its
\* first yield; the events it goes on to yield are those of GenerateChunks.
RelayRouteIterate ==
  /\ relay.mode = "route" /\ relay.pc = "response_started" /\ relay.client = "connected"
  /\ LET run == ServiceGenerateTextStream(relay.request, relay.tags, relay.stream)
     IN relay' = [relay EXCEPT !.pc = "sending", !.provider = run.provider,
                               !.calls = run.calls, !.pending = GenerateChunks(run),
                               !.raised = run.raised]
  /\ UNCHANGED relayUnchanged

\* The response sends the event the generator yielded and asks for the next;
\* the generator ends when it has none.
RelayRouteSend ==
  /\ relay.mode = "route" /\ relay.pc = "sending" /\ relay.client = "connected"
  /\ IF relay.pending # <<>>
     THEN relay' = [relay EXCEPT !.events = Append(@, Head(relay.pending)),
                                 !.pending = Tail(@)]
     ELSE relay' = [relay EXCEPT !.pc = "finished"]
  /\ UNCHANGED relayUnchanged

\* generate_stream, first step: the listing call is made and awaited.
RelayProviderStart ==
  /\ relay.mode = "provider" /\ relay.pc = "start" /\ relay.client = "connected"
  /\ relay' = [relay EXCEPT !.pc = "check_model", !.calls = Append(@, "GET /api/tags")]
  /\ UNCHANGED relayUnchanged

\* The listing arrives: the model check, then the generate call is sent and
\* its response awaited, on a connection of the handle's client.
RelayCheckModel ==
  /\ relay.pc = "check_model" /\ relay.client = "connected"
  /\ IF CheckModelExists(relay.provider.model_name, relay.tags)
     THEN relay' = [relay EXCEPT !.pc = "opening", !.connection = "open",
                                 !.calls = Append(@, "POST /api/generate")]
     ELSE relay' = Finish(relay, ModelNotFoundError(relay.provider.model_name, "ollama"))
  /\ UNCHANGED relayUnchanged

\* The response's status line arrives: raise_for_status(), then the first
\* line is asked for.
RelayOpen ==
  /\ relay.pc = "opening" /\ relay.client = "connected"
  /\ IF relay.stream.status \notin 200..299
     THEN relay' = Finish(relay, StreamExcept(Raise("HTTPStatusError",
                                                    <<"status ", relay.stream.status>>)))
     ELSE relay' = [relay EXCEPT !.pc = "reading", !.requested = @ + 1]
  /\ UNCHANGED relayUnchanged

\* A line, or the end of the stream, arrives: the body of the loop over
\* aiter_lines(), up to the next line asked for, the yield or the end.
RelayLine ==
  /\ relay.pc = "reading" /\ relay.client = "connected"
  /\ IF relay.stream.lines = <<>>
     THEN relay' = Finish(relay,
                          IF relay.stream.ending = "fail"
                          THEN StreamExcept(Raise("ReadError", <<"peer closed connection">>))
                          ELSE NoExc)
     ELSE LET line == Head(relay.stream.lines)
              rest == [relay EXCEPT !.stream.lines = Tail(@)]
          IN IF line.kind = "garbage"
             THEN relay' = Finish(rest, StreamExcept(Raise("JSONDecodeError",
                                                           <<"Expecting value">>)))
             ELSE IF line.kind = "json" /\ "response" \in DOMAIN line.data
             THEN relay' = [rest EXCEPT !.pc = "yielded",
                                        !.yields = Append(@, line.data.response)]
             ELSE relay' = [rest EXCEPT !.requested = @ + 1]
  /\ UNCHANGED relayUnchanged

\* The consumer took the fragment and asks for the next: the generator
\* resumes after its yield and asks for the next line.
RelayResume ==
  /\ relay.pc = "yielded" /\ relay.client = "connected"
  /\ relay' = [relay EXCEPT !.pc = "reading", !.requested = @ + 1]
  /\ UNCHANGED relayUnchanged

\* http.disconnect: the client left while the response was in progress, and
\* the task producing it is cancelled.
RelayDisconnect ==
  /\ relay.pc \notin {"idle", "finished"} /\ relay.client = "connected"
  /\ relay' = [relay EXCEPT !.client = "gone"]
  /\ UNCHANGED relayUnchanged

\* The route's task is cancelled while it sends: generate_chunks() is not
\* iterated again, and its events not yet sent are dropped.
RelayRouteCancel ==
  /\ relay.mode = "route" /\ relay.pc \in {"response_started", "sending"}
  /\ relay.client = "gone"
  /\ relay' = [relay EXCEPT !.pc = "finished", !.pending = <<>>]
  /\ UNCHANGED relayUnchanged

\* generate_stream with the response opened outside an `async with`:
\* CancelledError leaves the generator with the connection as it is.
RelayCancelNoRelease ==
  /\ relay.mode = "provider" /\ relay.pc \in {"start", "check_model", "opening", "reading"}
  /\ relay.client = "gone"
  /\ relay' = [relay EXCEPT !.pc = "finished",
                            !.raised = Raise("CancelledError", <<>>)]
  /\ UNCHANGED relayUnchanged

\* CancelledError is raised at the await the generator is suspended on. It
\* is not an Exception, so neither check_model_exists nor the try block
\* catches it; it leaves the `async with`, if the generator is in it.
RelayCancel ==
  /\ relay.mode = "provider" /\ relay.pc \in {"start", "check_model", "opening", "reading"}
  /\ relay.client = "gone"
  /\ relay' = Finish(relay, Raise("CancelledError", <<>>))
  /\ UNCHANGED relayUnchanged

\* CancelledError is raised in the consumer while it holds a fragment: the
\* generator, suspended at its yield, is left unfinished.
RelayAbandon ==
  /\ relay.pc = "yielded" /\ relay.client = "gone"
  /\ relay' = [relay EXCEPT !.pc = "abandoned"]
  /\ UNCHANGED relayUnchanged

\* The event loop closes the unfinished generator: GeneratorExit is raised
\* at its yield and leaves the `async with`.
RelayFinalize ==
  /\ relay.pc = "abandoned"
  /\ relay' = Finish(relay, Raise("GeneratorExit", <<>>))
  /\ UNCHANGED relayUnchanged

NextRelay ==
  \/ RelayRouteIterate
  \/ RelayRouteSend
  \/ RelayProviderStart
  \/ RelayCheckModel
  \/ RelayOpen
  \/ RelayLine
  \/ RelayResume
  \/ RelayDisconnect
  \/ RelayRouteCancel
  \/ RelayCancel
  \/ RelayAbandon
  \/ RelayFinalize

\* The event loop runs every task that is ready: a cancelled task gets its
\* CancelledError, and an unfinished generator is closed.
SpecRelay ==
  /\ InitRelay
  /\ [][NextRelay]_vars
  /\ WF_vars(RelayRouteCancel)
  /\ WF_vars(RelayCancel)
  /\ WF_vars(RelayAbandon)
  /\ WF_vars(RelayFinalize)

----------------------------------------------------------------------------
(* Claim about the client's leaving, checked under SpecRelay *)

----------------------------------------------------------------------------
(* SpecPool: several requests in flight on one service. The requests share *)
(* the event loop: each runs from one await to the next without            *)
(* interruption, and the awaits of different requests interleave.          *)

MaxRequests == 2

RequestIds == 1..MaxRequests

PoolModels == {NoneStr, <<>>, N_llama2, N_llama3}

PoolTagsReplies == {TagsReply(HTTP_200_OK, c) : c \in HandlerCatalogs}

PoolGenReplies ==
  {GenReply(HTTP_200_OK, [response |-> "Hello world", eval_count |-> 2, done_reason |-> "stop"]),
   GenTransport}

\* A handle and its httpx.AsyncClient, open from the handle's construction;
\* owner is the request it was built for (0 for the cached one) and users
\* the requests that made a call with it.
ProviderHandle(p, owner) == [provider |-> p, client |-> "open", owner |-> owner, users |-> {}]

\* A request not yet received.
PoolRequestIdle ==
  [pc |-> "idle", kind |-> "none", request |-> <<>>, handle |-> -1, used |-> NoneStr,
   status |-> 0, info |-> <<>>]

\* LLMService._get_provider_for_request, with self._provider as it is when
\* the service reads it
ServiceGetProvider(self_provider, req, model_override) ==
  LET model_name == Or(model_override, req.model)
  IN IF Truthy(model_name) /\ model_name # GetModelInfo(self_provider).model_name
     THEN CreateProvider(model_name)
     ELSE self_provider

\* The handle a request holds: 0 is the cached one.
HandleOf(h) == IF h = 0 THEN pool.shared ELSE pool.handles[h]

\* The handles after request i made a call with handle h.
UsedBy(h, i) ==
  IF h = 0
  THEN [pool EXCEPT !.shared.users = @ \cup {i}]
  ELSE [pool EXCEPT !.handles[h].users = @ \cup {i}]

InitPool ==
  /\ HandlerIdle
  /\ resolver = ResolverIdle
  /\ composer = ComposerIdle
  /\ validator = ValidatorIdle
  /\ chooser = ChooserIdle
  /\ builder = BuilderIdle
  /\ relay = RelayIdle
  /\ pool = [pc |-> "serving",
             shared |-> ProviderHandle(DefaultProvider, 0),
             handles |-> <<>>,
             requests |-> [i \in RequestIds |-> PoolRequestIdle]]

poolUnchanged == <<handlerVars, resolver, composer, validator, chooser, builder, relay>>

\* A request arrives and passes validation: POST /generate, POST
\* /generate/stream or GET /model/info.
PoolReceive(i) ==
  /\ pool.requests[i].pc = "idle"
  /\ \/ \E kind \in {"generate", "stream"}, model \in PoolModels :
          pool' = [pool EXCEPT !.requests[i] =
                     [@ EXCEPT !.pc = "route", !.kind = kind,
                               !.request = RequestBody(<<"H","i">>, kind = "stream", model)]]
     \/ pool' = [pool EXCEPT !.requests[i] =
                   [@ EXCEPT !.pc = "route", !.kind = "model_info",
                             !.request = RequestBody(<<"H","i">>, FALSE, NoneStr)]]
  /\ UNCHANGED poolUnchanged

\* get_model_info: the cached handle's description.
PoolModelInfoRoute(i) ==
  /\ pool.requests[i].pc = "route" /\ pool.requests[i].kind = "model_info"
  /\ pool' = [pool EXCEPT !.requests[i] =
                [@ EXCEPT !.pc = "done", !.status = HTTP_200_OK,
                          !.info = GetModelInfo(pool.shared.provider)]]
  /\ UNCHANGED poolUnchanged

\* The request holding the handle the service chose for it; a handle built
\* for the request joins the handles there are.
Choose(i, p) ==
  IF p.shared
  THEN [pool EXCEPT !.requests[i].handle = 0]
  ELSE [pool EXCEPT !.handles = Append(@, ProviderHandle(p, i)),
                    !.requests[i].handle = Len(pool.handles) + 1]

\* The service replacing its provider by the one the request names.
PoolGenerateRouteRebinding(i) ==
  /\ pool.requests[i].pc = "route" /\ pool.requests[i].kind = "generate"
  /\ LET p == ServiceGetProvider(pool.shared.provider, pool.requests[i].request, NoneStr)
     IN pool' = [pool EXCEPT !.shared.provider = [p EXCEPT !.shared = TRUE],
                             !.requests[i].handle = 0,
                             !.requests[i].pc = "check_model"]
  /\ UNCHANGED poolUnchanged

\* generate_text and LLMService.generate_text up to the provider's first
\* await: the choice of the handle.
PoolGenerateRoute(i) ==
  /\ pool.requests[i].pc = "route" /\ pool.requests[i].kind = "generate"
  /\ LET p == ServiceGetProvider(pool.shared.provider, pool.requests[i].request, NoneStr)
     IN pool' = [Choose(i, p) EXCEPT !.requests[i].pc = "check_model"]
  /\ UNCHANGED poolUnchanged

\* OllamaProvider.generate, first part: the listing call made with the
\* handle's client, and the model check.
PoolCheckModel(i) ==
  /\ pool.requests[i].pc = "check_model"
  /\ \E tags \in PoolTagsReplies :
       LET h == pool.requests[i].handle
       IN IF CheckModelExists(HandleOf(h).provider.model_name, tags)
          THEN pool' = [UsedBy(h, i) EXCEPT !.requests[i].pc = "generate"]
          ELSE pool' = [UsedBy(h, i) EXCEPT
                          !.requests[i].pc = "done",
                          !.requests[i].status = HTTP_404_NOT_FOUND]
  /\ UNCHANGED poolUnchanged

\* OllamaProvider.generate, second part: the generate call made with the
\* handle's client, and the response or the route's answer to the failure.
PoolGenerateCall(i) ==
  /\ pool.requests[i].pc = "generate"
  /\ \E gen \in PoolGenReplies :
       LET h == pool.requests[i].handle
           result == ProviderGenerate(HandleOf(h).provider, pool.requests[i].request, gen)
       IN pool' = [UsedBy(h, i) EXCEPT
                     !.requests[i].pc = "done",
                     !.requests[i].used = HandleOf(h).provider.model_name,
                     !.requests[i].status =
                        IF Raised(result.raised)
                        THEN GenerateTextExcept(result.raised).status
                        ELSE HTTP_200_OK]
  /\ UNCHANGED poolUnchanged

\* generate_text_stream: the StreamingResponse is returned and its status
\* line sent; generate_chunks() has not started.
PoolStreamRoute(i) ==
  /\ pool.requests[i].pc = "route" /\ pool.requests[i].kind = "stream"
  /\ pool' = [pool EXCEPT !.requests[i].pc = "stream_body",
                          !.requests[i].status = HTTP_200_OK]
  /\ UNCHANGED poolUnchanged

\* The first iteration of generate_chunks(): the service chooses the handle
\* and awaits the generator object, which raises; the error event ends the
\* response and no call was made with the handle.
PoolStreamBody(i) ==
  /\ pool.requests[i].pc = "stream_body"
  /\ LET p == ServiceGetProvider(pool.shared.provider, pool.requests[i].request, NoneStr)
         obj == [type |-> "async_generator", body |-> <<>>]
     IN /\ Raised(Await(obj).raised)
        /\ pool' = [Choose(i, p) EXCEPT !.requests[i].pc = "done"]
  /\ UNCHANGED poolUnchanged

NextPool ==
  \E i \in RequestIds :
    \/ PoolReceive(i)
    \/ PoolModelInfoRoute(i)
    \/ PoolGenerateRoute(i)
    \/ PoolCheckModel(i)
    \/ PoolGenerateCall(i)
    \/ PoolStreamRoute(i)
    \/ PoolStreamBody(i)

SpecPool == InitPool /\ [][NextPool]_vars

----------------------------------------------------------------------------
(* Claims about requests in flight together, checked under SpecPool *)

InFlight(i) == pool.requests[i].pc \notin {"idle", "done"}

OpenSwitchedHandles == {k \in DOMAIN pool.handles : pool.handles[k].client = "open"}

\* C25: when no request is in flight, no handle built for a model-switched
\* request is open.
C25_SwitchedHandlesReleasedWhenIdle ==
  (pool.pc = "serving" /\ \A i \in RequestIds : ~InFlight(i))
  => OpenSwitchedHandles = {}

\* A handle built for a request makes calls for that request only.
SwitchedHandleUsedByOwnerOnly ==
  pool.pc = "serving"
  => \A k \in DOMAIN pool.handles : pool.handles[k].users \subseteq {pool.handles[k].owner}

\* C26: whatever requests ran or are running, the cached handle is bound to
\* the configured model and base address, GET /model/info has reported the
\* configured default, and a request that names no model has generated with
\* the default model on the cached handle.
C26_SharedHandleStaysDefault ==
  pool.pc = "serving"
  => /\ pool.shared.provider = DefaultProvider
     /\ pool.shared.provider.model_name = DefaultModelName
     /\ pool.shared.provider.base_url = OllamaBaseUrl
     /\ \A i \in RequestIds :
          LET r == pool.requests[i]
          IN /\ (r.kind = "model_info" /\ r.pc = "done")
                => r.info = [provider |-> "ollama", model_name |-> DefaultModelName,
                             base_url |-> OllamaBaseUrl]
             /\ (r.kind = "generate" /\ r.pc = "done" /\ r.used # NoneStr
                 /\ (r.request.model = NoneStr \/ r.request.model = <<>>))
                => r.used = DefaultModelName /\ r.handle = 0

C26_Witness ==
  /\ pool.pc = "serving"
  /\ \E i, j \in RequestIds :
       /\ pool.requests[i].kind = "generate" /\ pool.requests[i].pc = "done"
       /\ pool.requests[i].used = N_llama3 /\ pool.requests[i].status = HTTP_200_OK
       /\ pool.requests[j].kind = "generate" /\ pool.requests[j].pc = "done"
       /\ pool.requests[j].request.model = NoneStr
       /\ pool.requests[j].used = DefaultModelName
       /\ pool.requests[j].status = HTTP_200_OK

====
